---------------------------- MODULE Spec2Model ----------------------------
(***************************************************************************)
(* Model of the tabular ingestion and normalisation engine of the studio   *)
(* task board: src/src/lib/task-utils.ts (latest revision, lines 274-625)  *)
(* with the header configuration of src/unnamed/part_009.                  *)
(* The board around it is the page of src/src/app/print/page.tsx (latest   *)
(* revision, lines 526-817), the importer of src/unnamed/part_004 and the  *)
(* cards of src/src/components/tasks/task-card.tsx.                        *)
(*                                                                         *)
(* Text is modelled as a sequence of one-character strings, so that        *)
(* trimming, splitting, upper-casing, digit parsing and date rendering are *)
(* computed character by character as the code computes them.              *)
(***************************************************************************)
EXTENDS Integers, Sequences, FiniteSets, TLC

VARIABLES
    jsEngine,       \* how the host's Date constructor treats non-ISO text
    timeZone,       \* sign of the host's UTC offset
    currentYear,    \* year of `new Date()` when a cell is normalised
    pc,             \* position of the run
    dateCell,       \* due-date cell handed to the normaliser
    dueDateField,   \* DateValue stored for dateCell
    rendered,       \* dd/MM/yyyy rendering of a concrete dueDateField
    renormalized,   \* parseCustomDateString(rendered)
    fileText,       \* text of the selected file
    parseResult,    \* what parseTaskFile returned or threw
    tasks,          \* the task collection built from the import
    csvText,        \* what exportTasksToCSV returned
    reparseResult,  \* parseTaskFile of csvText
    againField,     \* DateValue of a later normalisation of dateCell
    file,           \* DataImporter: the selected file, or none
    isLoading,      \* DataImporter: an import is in flight
    replaceExisting,\* argument of the latest handleImport
    notified,       \* callbacks the latest handleImport has called
    uuidCount,      \* identifiers uuidv4() has handed out
    editCount,      \* calls of handleUpdateTask made from the cards
    inFlight        \* parseTaskFile calls of the importer not yet settled

importerVars ==
    <<file, isLoading, replaceExisting, notified, uuidCount, editCount, inFlight>>

vars == <<jsEngine, timeZone, currentYear, pc, dateCell, dueDateField,
          rendered, renormalized, fileText, parseResult, tasks, csvText,
          reparseResult, againField, importerVars>>

\* the runtime a call happens in: engine is "lenient" (legacy heuristics for
\* non-ISO text) or "strict" (ISO forms only), tz is "west" (UTC offset below
\* zero) or "east" (zero or above), year is the year of new Date()
Host == [engine |-> jsEngine, tz |-> timeZone, year |-> currentYear]

-----------------------------------------------------------------------------
(* Characters and strings                                                  *)

LowerLetters == <<"a","b","c","d","e","f","g","h","i","j","k","l","m",
                  "n","o","p","q","r","s","t","u","v","w","x","y","z">>

UpperLetters == <<"A","B","C","D","E","F","G","H","I","J","K","L","M",
                  "N","O","P","Q","R","S","T","U","V","W","X","Y","Z">>

DigitChars == <<"0","1","2","3","4","5","6","7","8","9">>

WhiteSpace == {" ", "\t", "\r", "\n"}

IsDigit(c) == \E i \in 1..10 : DigitChars[i] = c

DigitValue(c) == (CHOOSE i \in 1..10 : DigitChars[i] = c) - 1

AllDigits(s) == Len(s) > 0 /\ \A i \in 1..Len(s) : IsDigit(s[i])

\* parseInt(s, 10) of a string of digits
RECURSIVE ParseInt(_)
ParseInt(s) ==
    IF s = <<>> THEN 0
    ELSE 10 * ParseInt(SubSeq(s, 1, Len(s) - 1)) + DigitValue(s[Len(s)])

\* decimal digits of n >= 0
RECURSIVE NumberToString(_)
NumberToString(n) ==
    IF n < 10 THEN <<DigitChars[n + 1]>>
    ELSE NumberToString(n \div 10) \o <<DigitChars[(n % 10) + 1]>>

\* date-fns addLeadingZeros(number, targetLength)
RECURSIVE AddLeadingZeros(_, _)
AddLeadingZeros(s, targetLength) ==
    IF Len(s) >= targetLength THEN s ELSE AddLeadingZeros(<<"0">> \o s, targetLength)

UpperChar(c) ==
    IF \E i \in 1..26 : LowerLetters[i] = c
    THEN UpperLetters[CHOOSE i \in 1..26 : LowerLetters[i] = c]
    ELSE c

\* String.prototype.toUpperCase
ToUpperCase(s) == [i \in 1..Len(s) |-> UpperChar(s[i])]

\* String.prototype.trim
Trim(s) ==
    LET keep == {i \in 1..Len(s) : s[i] \notin WhiteSpace}
    IN  IF keep = {} THEN <<>>
        ELSE SubSeq(s, CHOOSE i \in keep : \A j \in keep : i <= j,
                       CHOOSE i \in keep : \A j \in keep : j <= i)

\* String.prototype.split(sep) for a one-character separator: never empty
Split(s, sep) ==
    LET at == {i \in 1..Len(s) : s[i] = sep}
        n == Cardinality(at)
        pos(k) == IF k = 0 THEN 0
                  ELSE IF k = n + 1 THEN Len(s) + 1
                  ELSE CHOOSE p \in at : Cardinality({q \in at : q < p}) = k - 1
    IN  [k \in 1..(n + 1) |-> SubSeq(s, pos(k - 1) + 1, pos(k) - 1)]

\* Array.prototype.join(sep)
RECURSIVE Join(_, _)
Join(cells, sep) ==
    IF cells = <<>> THEN <<>>
    ELSE IF Len(cells) = 1 THEN cells[1]
    ELSE cells[1] \o sep \o Join(Tail(cells), sep)

Includes(s, c) == \E i \in 1..Len(s) : s[i] = c

\* Array.prototype.indexOf, 0-based, -1 when absent
IndexOf(cells, x) ==
    IF \E i \in 1..Len(cells) : cells[i] = x
    THEN (CHOOSE i \in 1..Len(cells) :
             cells[i] = x /\ \A j \in 1..(i - 1) : cells[j] # x) - 1
    ELSE -1

-----------------------------------------------------------------------------
(* Calendar arithmetic of the host Date object (proleptic Gregorian)       *)

IsLeapYear(y) == (y % 400 = 0) \/ (y % 4 = 0 /\ y % 100 # 0)

DaysInMonth(y, m) ==
    IF m = 2 THEN (IF IsLeapYear(y) THEN 29 ELSE 28)
    ELSE IF m \in {4, 6, 9, 11} THEN 30 ELSE 31

\* day number of a civil date (day 0 = 1970-01-01); m in 1..12
DaysFromCivil(y, m, d) ==
    LET FromEra(yy, mp) ==
            (yy \div 400) * 146097 + (yy % 400) * 365 + (yy % 400) \div 4
            - (yy % 400) \div 100 + (153 * mp + 2) \div 5 + d - 1 - 719468
    IN  FromEra(IF m <= 2 THEN y - 1 ELSE y, IF m > 2 THEN m - 3 ELSE m + 9)

CivilFromDays(z) ==
    LET Fields(era, yoe, doy, mp) ==
            [y |-> yoe + era * 400 + (IF mp >= 10 THEN 1 ELSE 0),
             m |-> IF mp < 10 THEN mp + 3 ELSE mp - 9,
             d |-> doy - (153 * mp + 2) \div 5 + 1]
        InYear(era, yoe, doy) == Fields(era, yoe, doy, (5 * doy + 2) \div 153)
        InEra(era, doe, yoe) ==
            InYear(era, yoe, doe - (365 * yoe + yoe \div 4 - yoe \div 100))
        FromEra(era, doe) ==
            InEra(era, doe,
                  (doe - doe \div 1460 + doe \div 36524 - doe \div 146096) \div 365)
    IN  FromEra((z + 719468) \div 146097, (z + 719468) % 146097)

\* MakeDay of ECMAScript: month index and day may lie outside their range
MakeDay(year, monthIndex, day) ==
    CivilFromDays(DaysFromCivil(year + monthIndex \div 12, (monthIndex % 12) + 1, 1)
                  + day - 1)

NullDate == [kind |-> "null"]

\* a valid Date: midnight of y-m-d, in local time or in UTC
DateAt(y, m, d, utc) == [kind |-> "date", y |-> y, m |-> m, d |-> d, utc |-> utc]

IsDate(v) == v.kind = "date"

IsText(v) == v.kind = "text"

TextValue(s) == [kind |-> "text", text |-> s]

\* getFullYear / getMonth + 1 / getDate: the local calendar fields
LocalFields(date, host) ==
    IF date.utc /\ host.tz = "west"
    THEN CivilFromDays(DaysFromCivil(date.y, date.m, date.d) - 1)
    ELSE [y |-> date.y, m |-> date.m, d |-> date.d]

\* the pattern MM/dd/yyyy in place of dd/MM/yyyy
FormatDate_MonthFirst(date, host) ==
    LET Render(f) ==
            AddLeadingZeros(NumberToString(f.m), 2) \o <<"/">>
            \o AddLeadingZeros(NumberToString(f.d), 2) \o <<"/">>
            \o AddLeadingZeros(NumberToString(IF f.y > 0 THEN f.y ELSE 1 - f.y), 4)
    IN  Render(LocalFields(date, host))

\* format(date, 'dd/MM/yyyy') of date-fns
FormatDate(date, host) ==
    LET Render(f) ==
            AddLeadingZeros(NumberToString(f.d), 2) \o <<"/">>
            \o AddLeadingZeros(NumberToString(f.m), 2) \o <<"/">>
            \o AddLeadingZeros(NumberToString(IF f.y > 0 THEN f.y ELSE 1 - f.y), 4)
    IN  Render(LocalFields(date, host))

-----------------------------------------------------------------------------
(* Date normaliser: parseCustomDateString and the libraries it calls       *)

VALUE_ERROR == <<"#","V","A","L","U","E","!">>

DASH == <<"-">>

DATA_NO_ESPECIFICADA ==
    <<"D","a","t","a"," ","n","o"," ","e","s","p","e","c","i","f","i","c","a","d","a">>

DATA_DESCONEGUDA ==
    <<"D","a","t","a"," ","D","e","s","c","o","n","e","g","u","d","a">>

NOT_APPLICABLE == <<"N","/","A">>

SPECIAL_DATE_STRINGS == {DATA_NO_ESPECIFICADA, DATA_DESCONEGUDA, NOT_APPLICABLE}

\* /^\d{1,2}\/\d{1,2}\/\d{4}$/ (yearDigits = 4) and /^\d{1,2}\/\d{1,2}\/\d{2}$/
MatchesDayMonthYear(s, yearDigits) ==
    LET Shape(p) ==
            /\ Len(p) = 3
            /\ AllDigits(p[1]) /\ Len(p[1]) <= 2
            /\ AllDigits(p[2]) /\ Len(p[2]) <= 2
            /\ AllDigits(p[3]) /\ Len(p[3]) = yearDigits
    IN  Shape(Split(s, "/"))

\* /^\d{4}-\d{1,2}-\d{1,2}$/
MatchesYearMonthDay(s) ==
    LET Shape(p) ==
            /\ Len(p) = 3
            /\ AllDigits(p[1]) /\ Len(p[1]) = 4
            /\ AllDigits(p[2]) /\ Len(p[2]) <= 2
            /\ AllDigits(p[3]) /\ Len(p[3]) <= 2
    IN  Shape(Split(s, "-"))

\* date-fns normalizeTwoDigitYear(twoDigitYear, currentYear)
NormalizeTwoDigitYear(twoDigitYear, refYear) ==
    IF refYear <= 50
    THEN (IF twoDigitYear = 0 THEN 100 ELSE twoDigitYear)
    ELSE LET Pivot(rangeEnd, rangeEndCentury) ==
                 IF twoDigitYear >= rangeEnd % 100
                 THEN twoDigitYear + rangeEndCentury - 100
                 ELSE twoDigitYear + rangeEndCentury
         IN  Pivot(refYear + 50, ((refYear + 50) \div 100) * 100)

\* the pattern MM/dd/yyyy (MM/dd/yy) in place of dd/MM/yyyy (dd/MM/yy)
DateFnsParse_MonthFirst(s, twoDigitYear, host) ==
    LET Compose(day, month, year, raw) ==
            IF /\ (twoDigitYear \/ raw > 0)
               /\ month \in 1..12
               /\ day >= 1 /\ day <= DaysInMonth(year, month)
            THEN DateAt(year, month, day, FALSE)
            ELSE NullDate
        Read(day, month, raw) ==
            Compose(day, month,
                    IF twoDigitYear THEN NormalizeTwoDigitYear(raw, host.year) ELSE raw,
                    raw)
        Parts(p) == Read(ParseInt(p[2]), ParseInt(p[1]), ParseInt(p[3]))
    IN  Parts(Split(s, "/"))

\* date-fns parse(s, 'dd/MM/yyyy' | 'dd/MM/yy', new Date()) on text of that
\* shape: local midnight, or Invalid Date (NullDate here) when the year is
\* not positive, the month is not 1..12 or the day is not a day of the month
DateFnsParse(s, twoDigitYear, host) ==
    LET Compose(day, month, year, raw) ==
            IF /\ (twoDigitYear \/ raw > 0)
               /\ month \in 1..12
               /\ day >= 1 /\ day <= DaysInMonth(year, month)
            THEN DateAt(year, month, day, FALSE)
            ELSE NullDate
        Read(day, month, raw) ==
            Compose(day, month,
                    IF twoDigitYear THEN NormalizeTwoDigitYear(raw, host.year) ELSE raw,
                    raw)
        Parts(p) == Read(ParseInt(p[1]), ParseInt(p[2]), ParseInt(p[3]))
    IN  Parts(Split(s, "/"))

\* date-fns parseISO on text of the shape yyyy-M-d: local midnight when month
\* and day have two digits and form a date of that year, else Invalid Date
ParseISO(s) ==
    LET Compose(year, month, day, twoDigits) ==
            IF /\ twoDigits
               /\ month \in 1..12
               /\ day >= 1 /\ day <= DaysInMonth(year, month)
            THEN DateAt(year, month, day, FALSE)
            ELSE NullDate
        Parts(p) == Compose(ParseInt(p[1]), ParseInt(p[2]), ParseInt(p[3]),
                            Len(p[2]) = 2 /\ Len(p[3]) = 2)
    IN  Parts(Split(s, "-"))

\* new Date(Date.UTC(year, month, day)) checked against its own UTC fields
DateFromParts(s) ==
    LET Check(year, month, day, made) ==
            IF made.y = year /\ made.m - 1 = month /\ made.d = day
            THEN DateAt(made.y, made.m, made.d, TRUE)
            ELSE NullDate
        Make(year, month, day) ==
            Check(year, month, day,
                  MakeDay(IF year >= 0 /\ year <= 99 THEN 1900 + year ELSE year,
                          month, day))
        Parts(p) == Make(ParseInt(p[1]), ParseInt(p[2]) - 1, ParseInt(p[3]))
    IN  Parts(Split(s, "-"))

\* the numbers a legacy (non-ISO) date parser reads from the text
LegacyComponents(s) ==
    LET Nums(p) == [i \in 1..Len(p) |-> ParseInt(p[i])]
        Ok(p)   == Len(p) <= 3 /\ \A i \in 1..Len(p) : AllDigits(p[i])
        Pick(bySlash, byDash) ==
            IF Ok(bySlash) THEN Nums(bySlash)
            ELSE IF Ok(byDash) THEN Nums(byDash)
            ELSE <<>>
    IN  Pick(Split(s, "/"), Split(s, "-"))

\* the legacy day composer of a lenient host: month/day/year unless the first
\* number cannot be a day, two-digit years pivot at 50, days up to 31 roll over
LegacyDateParse(s) ==
    LET AsLocal(made) == DateAt(made.y, made.m, made.d, FALSE)
        Compose(yr, mo, dy) ==
            IF mo \notin 1..12 \/ dy \notin 1..31
            THEN NullDate
            ELSE AsLocal(MakeDay(IF yr <= 49 THEN yr + 2000
                                 ELSE IF yr <= 99 THEN yr + 1900 ELSE yr,
                                 mo - 1, dy))
        Order(comp) ==
            IF comp[1] < 1 \/ comp[1] > 31
            THEN Compose(comp[1], comp[2], comp[3])
            ELSE Compose(comp[3], comp[1], comp[2])
        Pad(c) ==
            IF c = <<>> THEN NullDate
            ELSE Order([i \in 1..3 |-> IF i <= Len(c) THEN c[i] ELSE 1])
    IN  Pad(LegacyComponents(s))

\* new Date(text): the ISO forms yyyy and yyyy-MM-dd are read as UTC by every
\* host; what any other text yields is left to the host (jsEngine)
NativeDateParse(s, host) ==
    LET AsUtc(made) == DateAt(made.y, made.m, made.d, TRUE)
        Compose(year, month, day) ==
            IF month \notin 1..12 \/ day \notin 1..31 THEN NullDate
            ELSE IF day <= DaysInMonth(year, month) THEN DateAt(year, month, day, TRUE)
            ELSE IF host.engine = "lenient" THEN AsUtc(MakeDay(year, month - 1, day))
            ELSE NullDate
        Parts(p) == Compose(ParseInt(p[1]), ParseInt(p[2]), ParseInt(p[3]))
    IN  IF AllDigits(s) /\ Len(s) = 4
        THEN DateAt(ParseInt(s), 1, 1, TRUE)
        ELSE IF MatchesYearMonthDay(s) /\ Len(s) = 10
        THEN Parts(Split(s, "-"))
        ELSE IF host.engine = "lenient" THEN LegacyDateParse(s)
        ELSE NullDate

IsSentinel(trimmedDateStr) ==
    \/ ToUpperCase(trimmedDateStr) = VALUE_ERROR
    \/ trimmedDateStr = DASH
    \/ trimmedDateStr = <<>>
    \/ trimmedDateStr \in SPECIAL_DATE_STRINGS

ParseCustomDateString(dateStr, host) ==
    LET FirstValid(parsedDate, otherwise) ==
            IF IsDate(parsedDate) THEN parsedDate ELSE otherwise
        Attempts(trimmedDateStr) ==
            IF IsSentinel(trimmedDateStr) THEN NullDate
            ELSE
            FirstValid(IF MatchesDayMonthYear(trimmedDateStr, 4)
                       THEN DateFnsParse(trimmedDateStr, FALSE, host) ELSE NullDate,
            FirstValid(IF MatchesDayMonthYear(trimmedDateStr, 2)
                       THEN DateFnsParse(trimmedDateStr, TRUE, host) ELSE NullDate,
            FirstValid(IF MatchesYearMonthDay(trimmedDateStr)
                       THEN ParseISO(trimmedDateStr) ELSE NullDate,
            FirstValid(IF MatchesYearMonthDay(trimmedDateStr)
                       THEN DateFromParts(trimmedDateStr) ELSE NullDate,
                       NativeDateParse(trimmedDateStr, host)))))
    IN  IF dateStr = <<>> THEN NullDate ELSE Attempts(Trim(dateStr))

\* the cell text kept as it is, an empty cell included
DueDateOfCell_Verbatim(rowCell, host) ==
    LET Field(originalDueDateStr, parsedDate) ==
            IF IsDate(parsedDate) THEN parsedDate ELSE TextValue(originalDueDateStr)
        Normalise(originalDueDateStr) ==
            Field(originalDueDateStr, ParseCustomDateString(originalDueDateStr, host))
    IN  Normalise(IF rowCell # <<>> THEN Trim(rowCell) ELSE <<>>)

\* parseTaskFile, due-date cell of one row: the trimmed cell ("" when the
\* cell is empty or missing) is normalised; text that is no date is kept
DueDateOfCell(rowCell, host) ==
    LET Field(originalDueDateStr, parsedDate) ==
            IF IsDate(parsedDate) THEN parsedDate
            ELSE IF originalDueDateStr # <<>> THEN TextValue(originalDueDateStr)
            ELSE TextValue(DATA_NO_ESPECIFICADA)
        Normalise(originalDueDateStr) ==
            Field(originalDueDateStr, ParseCustomDateString(originalDueDateStr, host))
    IN  Normalise(IF rowCell # <<>> THEN Trim(rowCell) ELSE <<>>)

\* the quotes inside a quoted cell are left single
DoubleQuotes_Single(s) == s

\* cell.replace(/"/g, '""')
RECURSIVE DoubleQuotes(_)
DoubleQuotes(s) ==
    IF s = <<>> THEN <<>>
    ELSE (IF Head(s) = "\"" THEN <<"\"", "\"">> ELSE <<Head(s)>>) \o DoubleQuotes(Tail(s))

\* escapeCsvCell applied to a string
EscapeCsvCell(cellData, host) ==
    LET Reformat(parsed) == IF IsDate(parsed) THEN FormatDate(parsed, host) ELSE cellData
        Quote(cell) ==
            IF Includes(cell, ",") \/ Includes(cell, "\n") \/ Includes(cell, "\"")
            THEN <<"\"">> \o DoubleQuotes(cell) \o <<"\"">>
            ELSE cell
    IN  Quote(IF cellData \in SPECIAL_DATE_STRINGS \/ ToUpperCase(cellData) = VALUE_ERROR
              THEN cellData
              ELSE Reformat(ParseCustomDateString(cellData, host)))

\* exportTasksToCSV, third cell of a row
ExportDueDate(originalDueDate, host) ==
    EscapeCsvCell(IF IsDate(originalDueDate) THEN FormatDate(originalDueDate, host)
                  ELSE originalDueDate.text, host)

-----------------------------------------------------------------------------
(* Header configuration (app-config)                                       *)

APP_HEADER_TERMINI == <<"#","T","E","R","M","I","N","I">>

APP_HEADER_CONTENT ==
    <<"#","D","O","C","U","M","E","N","T","S","/","A","C","C","I","O","N","S">>

APP_HEADER_DUE_DATE == <<"#","D","A","T","A"," ","A"," ","F","E","R">>

HEADER_VARIANTS_TERMINI ==
    << <<"#","T","E","R","M","I","N","I">>,
       <<"T","E","R","M","I","N","I">> >>

HEADER_VARIANTS_CONTENT ==
    << <<"#","D","O","C","U","M","E","N","T","S","/","A","C","C","I","O","N","S">>,
       <<"D","O","C","U","M","E","N","T","S","/","A","C","C","I","O","N","S">>,
       <<"#","D","O","C","U","M","E","N","T","/","A","C","C","I","O","N","S">>,
       <<"D","O","C","U","M","E","N","T","/","A","C","C","I","O","N","S">>,
       <<"D","O","C","U","M","E","N","T">> >>

HEADER_VARIANTS_DUE_DATE ==
    << <<"#","D","A","T","A"," ","A"," ","F","E","R">>,
       <<"D","A","T","A"," ","A"," ","F","E","R">> >>

INITIAL_POSTIT_COLOR == <<"#","E","9","F","5","E","8">>

DEFAULT_TASK_STATUS == "Pendent"

MAX_HEADER_SCAN_LINES == 20

-----------------------------------------------------------------------------
(* parseTaskFile                                                           *)

\* cleanHeader
CleanHeader(header) == ToUpperCase(Trim(header))

\* fileText.split(/\r?\n/)
SplitLines(text) ==
    LET raw == Split(text, "\n")
    IN  [i \in 1..Len(raw) |->
            IF raw[i] # <<>> /\ raw[i][Len(raw[i])] = "\r"
            THEN SubSeq(raw[i], 1, Len(raw[i]) - 1) ELSE raw[i]]

\* line.trim() === '' || line.split(',').every(cell => cell.trim() === '')
IsBlankLine(line) ==
    \/ Trim(line) = <<>>
    \/ LET cells == Split(line, ",")
       IN  \A k \in 1..Len(cells) : Trim(cells[k]) = <<>>

\* for (const variant of VARIANTS) { idx = cells.indexOf(variant); ... break }
\* the column of the first variant, in list order, that the row holds; else -1
FindVariant(currentCellsUpper, variants) ==
    LET upper == [k \in 1..Len(variants) |-> CleanHeader(variants[k])]
        hits  == {k \in 1..Len(upper) : IndexOf(currentCellsUpper, upper[k]) # -1}
    IN  IF hits = {} THEN -1
        ELSE IndexOf(currentCellsUpper, upper[CHOOSE k \in hits : \A j \in hits : k <= j])

NoColumns ==
    [terminiColIndex |-> -1, contentColIndex |-> -1, dueDateColIndex |-> -1,
     maxHeaderRowIndex |-> -1, stop |-> FALSE]

\* one iteration of a header loop that searches again for a field already set
ScanLine_Overwrite(line, i, st) ==
    LET Decide(termini, content, dueDate, headersFoundInThisRow) ==
            LET primaryHeadersFound ==
                    (IF content # -1 THEN 1 ELSE 0) + (IF dueDate # -1 THEN 1 ELSE 0)
                counted == headersFoundInThisRow > 0 /\ primaryHeadersFound >= 1
                allThree == termini # -1 /\ content # -1 /\ dueDate # -1
            IN  [terminiColIndex |-> termini,
                 contentColIndex |-> content,
                 dueDateColIndex |-> dueDate,
                 maxHeaderRowIndex |-> IF counted THEN i ELSE st.maxHeaderRowIndex,
                 stop |-> counted /\ allThree]
        Merge(tIdx, cIdx, dIdx) ==
            Decide(IF tIdx # -1 THEN tIdx ELSE st.terminiColIndex,
                   IF cIdx # -1 THEN cIdx ELSE st.contentColIndex,
                   IF dIdx # -1 THEN dIdx ELSE st.dueDateColIndex,
                   (IF tIdx # -1 THEN 1 ELSE 0) + (IF cIdx # -1 THEN 1 ELSE 0)
                   + (IF dIdx # -1 THEN 1 ELSE 0))
        Search(currentCellsUpper) ==
            Merge(FindVariant(currentCellsUpper, HEADER_VARIANTS_TERMINI),
                  FindVariant(currentCellsUpper, HEADER_VARIANTS_CONTENT),
                  FindVariant(currentCellsUpper, HEADER_VARIANTS_DUE_DATE))
        Cells(currentCells) ==
            Search([k \in 1..Len(currentCells) |-> CleanHeader(currentCells[k])])
    IN  IF IsBlankLine(line) THEN st ELSE Cells(Split(line, ","))

\* one iteration of a header loop that keeps the first header row it counted
ScanLine_FirstHeaderRow(line, i, st) ==
    LET Decide(termini, content, dueDate, headersFoundInThisRow) ==
            LET primaryHeadersFound ==
                    (IF content # -1 THEN 1 ELSE 0) + (IF dueDate # -1 THEN 1 ELSE 0)
                counted == headersFoundInThisRow > 0 /\ primaryHeadersFound >= 1
                allThree == termini # -1 /\ content # -1 /\ dueDate # -1
            IN  [terminiColIndex |-> termini,
                 contentColIndex |-> content,
                 dueDateColIndex |-> dueDate,
                 maxHeaderRowIndex |->
                    IF counted /\ st.maxHeaderRowIndex = -1
                    THEN i ELSE st.maxHeaderRowIndex,
                 stop |-> counted /\ allThree]
        Merge(tIdx, cIdx, dIdx) ==
            Decide(IF tIdx # -1 THEN tIdx ELSE st.terminiColIndex,
                   IF cIdx # -1 THEN cIdx ELSE st.contentColIndex,
                   IF dIdx # -1 THEN dIdx ELSE st.dueDateColIndex,
                   (IF tIdx # -1 THEN 1 ELSE 0) + (IF cIdx # -1 THEN 1 ELSE 0)
                   + (IF dIdx # -1 THEN 1 ELSE 0))
        Search(currentCellsUpper) ==
            Merge(IF st.terminiColIndex = -1
                  THEN FindVariant(currentCellsUpper, HEADER_VARIANTS_TERMINI) ELSE -1,
                  IF st.contentColIndex = -1
                  THEN FindVariant(currentCellsUpper, HEADER_VARIANTS_CONTENT) ELSE -1,
                  IF st.dueDateColIndex = -1
                  THEN FindVariant(currentCellsUpper, HEADER_VARIANTS_DUE_DATE) ELSE -1)
        Cells(currentCells) ==
            Search([k \in 1..Len(currentCells) |-> CleanHeader(currentCells[k])])
    IN  IF IsBlankLine(line) THEN st ELSE Cells(Split(line, ","))

\* one iteration of the header loop, on line i (0-based)
ScanLine(line, i, st) ==
    LET Decide(termini, content, dueDate, headersFoundInThisRow) ==
            LET foundKeys ==
                    (IF termini # -1 THEN 1 ELSE 0) + (IF content # -1 THEN 1 ELSE 0)
                    + (IF dueDate # -1 THEN 1 ELSE 0)
                primaryHeadersFound ==
                    (IF content # -1 THEN 1 ELSE 0) + (IF dueDate # -1 THEN 1 ELSE 0)
                counted == headersFoundInThisRow > 0 /\ primaryHeadersFound >= 1
                allThree == termini # -1 /\ content # -1 /\ dueDate # -1
            IN  [terminiColIndex |-> termini,
                 contentColIndex |-> content,
                 dueDateColIndex |-> dueDate,
                 maxHeaderRowIndex |->
                    IF counted /\ (allThree \/ i > st.maxHeaderRowIndex
                                            \/ headersFoundInThisRow > foundKeys)
                    THEN i ELSE st.maxHeaderRowIndex,
                 stop |-> counted /\ allThree]
        Merge(tIdx, cIdx, dIdx) ==
            Decide(IF tIdx # -1 THEN tIdx ELSE st.terminiColIndex,
                   IF cIdx # -1 THEN cIdx ELSE st.contentColIndex,
                   IF dIdx # -1 THEN dIdx ELSE st.dueDateColIndex,
                   (IF tIdx # -1 THEN 1 ELSE 0) + (IF cIdx # -1 THEN 1 ELSE 0)
                   + (IF dIdx # -1 THEN 1 ELSE 0))
        Search(currentCellsUpper) ==
            Merge(IF st.terminiColIndex = -1
                  THEN FindVariant(currentCellsUpper, HEADER_VARIANTS_TERMINI) ELSE -1,
                  IF st.contentColIndex = -1
                  THEN FindVariant(currentCellsUpper, HEADER_VARIANTS_CONTENT) ELSE -1,
                  IF st.dueDateColIndex = -1
                  THEN FindVariant(currentCellsUpper, HEADER_VARIANTS_DUE_DATE) ELSE -1)
        Cells(currentCells) ==
            Search([k \in 1..Len(currentCells) |-> CleanHeader(currentCells[k])])
    IN  IF IsBlankLine(line) THEN st ELSE Cells(Split(line, ","))

\* the header loop stopping after MAX_HEADER_SCAN_LINES non-blank lines
RECURSIVE ScanHeaders_NonBlank(_, _, _)
ScanHeaders_NonBlank(lines, i, st) ==
    IF \/ st.stop
       \/ i >= Len(lines)
       \/ Cardinality({j \in 1..i : ~IsBlankLine(lines[j])}) >= MAX_HEADER_SCAN_LINES
    THEN st
    ELSE ScanHeaders_NonBlank(lines, i + 1, ScanLine(lines[i + 1], i, st))

\* the header loop: lines 0 .. min(lines.length, MAX_HEADER_SCAN_LINES) - 1
RECURSIVE ScanHeaders(_, _, _)
ScanHeaders(lines, i, st) ==
    IF st.stop \/ i >= Len(lines) \/ i >= MAX_HEADER_SCAN_LINES THEN st
    ELSE ScanHeaders(lines, i + 1, ScanLine(lines[i + 1], i, st))

\* an unmapped or empty cell left empty
CellOrDefault_Empty(row, colIndex, default) ==
    IF colIndex # -1 /\ colIndex < Len(row) /\ row[colIndex + 1] # <<>>
    THEN Trim(row[colIndex + 1])
    ELSE <<>>

\* row[index] trimmed when the column is mapped and the cell is non-empty
CellOrDefault(row, colIndex, default) ==
    IF colIndex # -1 /\ colIndex < Len(row) /\ row[colIndex + 1] # <<>>
    THEN Trim(row[colIndex + 1])
    ELSE default

\* a row whose due-date cell is no date is skipped
ExtractRow_DropUnparsed(line, cols, host) ==
    LET Record(terminiRaw, content, taskDueDateField) ==
            IF content = <<>> \/ ~IsDate(taskDueDateField) THEN <<>>
            ELSE << [content |-> content,
                     originalDueDate |-> taskDueDateField,
                     terminiRaw |-> terminiRaw,
                     adjustedDate |-> taskDueDateField] >>
        Cells(row) ==
            Record(CellOrDefault(row, cols.terminiColIndex, NOT_APPLICABLE),
                   CellOrDefault(row, cols.contentColIndex, <<>>),
                   DueDateOfCell(IF /\ cols.dueDateColIndex # -1
                                    /\ cols.dueDateColIndex < Len(row)
                                 THEN row[cols.dueDateColIndex + 1] ELSE <<>>, host))
    IN  IF IsBlankLine(line) THEN <<>> ELSE Cells(Split(line, ","))

\* a row with fewer cells than the highest resolved column index is skipped
ExtractRow_SkipShort(line, cols, host) ==
    LET Record(terminiRaw, content, taskDueDateField) ==
            IF content = <<>> THEN <<>>
            ELSE << [content |-> content,
                     originalDueDate |-> taskDueDateField,
                     terminiRaw |-> terminiRaw,
                     adjustedDate |-> taskDueDateField] >>
        Cells(row) ==
            IF \/ Len(row) <= cols.terminiColIndex
               \/ Len(row) <= cols.contentColIndex
               \/ Len(row) <= cols.dueDateColIndex
            THEN <<>>
            ELSE Record(CellOrDefault(row, cols.terminiColIndex, NOT_APPLICABLE),
                        CellOrDefault(row, cols.contentColIndex, <<>>),
                        DueDateOfCell(row[cols.dueDateColIndex + 1], host))
    IN  IF IsBlankLine(line) THEN <<>> ELSE Cells(Split(line, ","))

\* body of the extraction loop for one line: the records it adds (0 or 1)
ExtractRow(line, cols, host) ==
    LET Record(terminiRaw, content, taskDueDateField) ==
            IF content = <<>> THEN <<>>
            ELSE << [content |-> content,
                     originalDueDate |-> taskDueDateField,
                     terminiRaw |-> terminiRaw,
                     adjustedDate |-> taskDueDateField] >>
        Cells(row) ==
            Record(CellOrDefault(row, cols.terminiColIndex, NOT_APPLICABLE),
                   CellOrDefault(row, cols.contentColIndex, <<>>),
                   DueDateOfCell(IF /\ cols.dueDateColIndex # -1
                                    /\ cols.dueDateColIndex < Len(row)
                                 THEN row[cols.dueDateColIndex + 1] ELSE <<>>, host))
    IN  IF IsBlankLine(line) THEN <<>> ELSE Cells(Split(line, ","))

\* the records of later lines put first
RECURSIVE ExtractRows_Reversed(_, _, _, _)
ExtractRows_Reversed(lines, i, cols, host) ==
    IF i >= Len(lines) THEN <<>>
    ELSE ExtractRows_Reversed(lines, i + 1, cols, host)
         \o ExtractRow(lines[i + 1], cols, host)

\* the extraction loop: lines dataStartRow .. lines.length - 1
RECURSIVE ExtractRows(_, _, _, _)
ExtractRows(lines, i, cols, host) ==
    IF i >= Len(lines) THEN <<>>
    ELSE ExtractRow(lines[i + 1], cols, host) \o ExtractRows(lines, i + 1, cols, host)

\* a message that does not say which column is missing
MissingColumn_Unnamed(name, variants) == [column |-> "", variants |-> <<>>]

\* "Columna <name> no trobada (variants esperades: <variants>)"
MissingColumn(name, variants) == [column |-> name, variants |-> variants]

ParseTaskFile(text, host) ==
    LET Extract(lines, cols, dataStartRow) ==
            [kind |-> "ok",
             terminiColIndex |-> cols.terminiColIndex,
             contentColIndex |-> cols.contentColIndex,
             dueDateColIndex |-> cols.dueDateColIndex,
             dataStartRow |-> dataStartRow,
             tasks |-> IF dataStartRow >= Len(lines) /\ cols.maxHeaderRowIndex # -1
                       THEN <<>>
                       ELSE ExtractRows(lines, dataStartRow, cols, host)]
        errorMessages(cols) ==
            (IF cols.contentColIndex = -1
             THEN << MissingColumn("Contingut", HEADER_VARIANTS_CONTENT) >> ELSE <<>>)
            \o
            (IF cols.dueDateColIndex = -1
             THEN << MissingColumn("Data a Fer", HEADER_VARIANTS_DUE_DATE) >> ELSE <<>>)
        Mapped(lines, cols) ==
            IF cols.contentColIndex = -1 \/ cols.dueDateColIndex = -1
            THEN [kind |-> "error", errorMessages |-> errorMessages(cols)]
            ELSE Extract(lines, cols,
                         IF cols.maxHeaderRowIndex = -1 THEN 0
                         ELSE cols.maxHeaderRowIndex + 1)
        Lines(lines) == Mapped(lines, ScanHeaders(lines, 0, NoColumns))
    IN  Lines(SplitLines(text))

-----------------------------------------------------------------------------
(* createNewTaskObject and exportTasksToCSV                                *)

\* determineDateValue
DetermineDateValue(dateInput, host) ==
    LET Keep(parsed) == IF IsDate(parsed) THEN parsed ELSE dateInput
    IN  IF IsDate(dateInput) THEN dateInput
        ELSE IF IsText(dateInput) /\ Trim(dateInput.text) # <<>>
        THEN Keep(ParseCustomDateString(dateInput.text, host))
        ELSE TextValue(DATA_NO_ESPECIFICADA)

\* the adjusted date is not taken from the partial task
CreateNewTaskObject_Unmirrored(partialTask, uuid, now, host) ==
    LET has(f) == f \in DOMAIN partialTask
    IN  [id |-> IF has("id") THEN partialTask.id ELSE uuid,
         content |-> IF has("content") /\ partialTask.content # <<>>
                     THEN partialTask.content
                     ELSE <<"N","o","v","a"," ","t","a","s","c","a">>,
         terminiRaw |-> IF has("terminiRaw") THEN partialTask.terminiRaw
                        ELSE NOT_APPLICABLE,
         originalDueDate |->
            DetermineDateValue(IF has("originalDueDate")
                               THEN partialTask.originalDueDate ELSE NullDate, host),
         adjustedDate |-> TextValue(DATA_NO_ESPECIFICADA),
         status |-> IF has("status") THEN partialTask.status ELSE DEFAULT_TASK_STATUS,
         color |-> IF has("color") THEN partialTask.color ELSE INITIAL_POSTIT_COLOR,
         createdAt |-> IF has("createdAt") THEN partialTask.createdAt ELSE now]

\* createNewTaskObject; uuid is the value uuidv4() returns, now is new Date()
CreateNewTaskObject(partialTask, uuid, now, host) ==
    LET has(f) == f \in DOMAIN partialTask
        Build(finalOriginalDueDate) ==
            [id |-> IF has("id") THEN partialTask.id ELSE uuid,
             content |-> IF has("content") /\ partialTask.content # <<>>
                         THEN partialTask.content
                         ELSE <<"N","o","v","a"," ","t","a","s","c","a">>,
             terminiRaw |-> IF has("terminiRaw") THEN partialTask.terminiRaw
                            ELSE NOT_APPLICABLE,
             originalDueDate |-> finalOriginalDueDate,
             adjustedDate |->
                DetermineDateValue(IF has("adjustedDate") THEN partialTask.adjustedDate
                                   ELSE finalOriginalDueDate, host),
             status |-> IF has("status") THEN partialTask.status ELSE DEFAULT_TASK_STATUS,
             color |-> IF has("color") THEN partialTask.color ELSE INITIAL_POSTIT_COLOR,
             createdAt |-> IF has("createdAt") THEN partialTask.createdAt ELSE now]
    IN  Build(DetermineDateValue(IF has("originalDueDate")
                                 THEN partialTask.originalDueDate ELSE NullDate, host))

\* the date cell is taken from the adjusted date
ExportRow_Adjusted(task, host) ==
    Join(<< EscapeCsvCell(task.terminiRaw, host),
            EscapeCsvCell(task.content, host),
            ExportDueDate(task.adjustedDate, host) >>, <<",">>)

\* one row of the export
ExportRow(task, host) ==
    Join(<< EscapeCsvCell(task.terminiRaw, host),
            EscapeCsvCell(task.content, host),
            ExportDueDate(task.originalDueDate, host) >>, <<",">>)

ExportTasksToCSV(taskList, host) ==
    LET headerLine == Join(<<APP_HEADER_TERMINI, APP_HEADER_CONTENT, APP_HEADER_DUE_DATE>>,
                           <<",">>)
        rows == [k \in 1..Len(taskList) |-> ExportRow(taskList[k], host)]
    IN  Join(<<headerLine>> \o rows, <<"\n">>)

-----------------------------------------------------------------------------
(* Inputs                                                                  *)

Hosts == [engine : {"lenient", "strict"}, tz : {"west", "east"}, year : {2026, 2031}]

DayTexts == {<<"1">>, <<"0","5">>, <<"1","3">>, <<"2","9">>, <<"3","0">>, <<"3","1">>,
             <<"3","2">>, <<"0">>}

MonthTexts == {<<"1">>, <<"0","2">>, <<"1","2">>, <<"1","3">>, <<"0">>}

Year4Texts == {<<"2","0","2","4">>, <<"2","0","2","3">>, <<"0","0","0","0">>,
               <<"0","0","9","9">>}

Year2Texts == {<<"2","4">>, <<"8","0">>}

SlashTexts ==
    {d \o <<"/">> \o m \o <<"/">> \o y :
        d \in DayTexts, m \in MonthTexts, y \in Year4Texts \cup Year2Texts}

HyphenTexts ==
    {y \o <<"-">> \o m \o <<"-">> \o d :
        y \in Year4Texts, m \in MonthTexts, d \in DayTexts}

NumericTexts == {<<"7">>, <<"1","3">>, <<"2","0","2","4">>, <<"4","5","0","0","0">>}

SentinelTexts ==
    {VALUE_ERROR, <<"#","v","a","l","u","e","!">>, <<"#","V","a","l","u","e","!">>,
     DASH, <<>>, DATA_NO_ESPECIFICADA, DATA_DESCONEGUDA, NOT_APPLICABLE}

OtherTexts ==
    {<<"s","o","o","n">>, <<"n","/","a">>, <<" "," ">>, <<" ","-"," ">>,
     <<" ","1","5","/","0","3","/","2","0","2","4"," ">>}

\* no row of DataLines writes its year with two digits
FileHosts == {h \in Hosts : h.year = 2026}

DateCells == SlashTexts \cup HyphenTexts \cup NumericTexts \cup SentinelTexts \cup OtherTexts

Idle == [kind |-> "none"]

-----------------------------------------------------------------------------
(* Files                                                                   *)

\* "Junk,Junk,Junk"
JUNK_LINE == <<"J","u","n","k",",","J","u","n","k",",","J","u","n","k">>

\* "#TERMINI,#DOCUMENTS/ACCIONS,#DATA A FER"
FULL_HEADER_LINE ==
    <<"#","T","E","R","M","I","N","I",",","#","D","O","C","U","M","E","N","T","S","/",
      "A","C","C","I","O","N","S",",","#","D","A","T","A"," ","A"," ","F","E","R">>

\* ",DOCUMENT,DATA A FER"
NO_TERMINI_HEADER_LINE ==
    <<",","D","O","C","U","M","E","N","T",",","D","A","T","A"," ","A"," ","F","E",
      "R">>

\* "x,documents/accions"
CONTENT_HEADER_LINE ==
    <<"x",",","d","o","c","u","m","e","n","t","s","/","a","c","c","i","o","n","s">>

\* " Data a fer ,,termini"
DUE_TERMINI_HEADER_LINE ==
    <<" ","D","a","t","a"," ","a"," ","f","e","r"," ",",",",","t","e","r","m","i","n",
      "i">>

\* "TERMINI,a,b"
TERMINI_HEADER_LINE == <<"T","E","R","M","I","N","I",",","a",",","b">>

\* "DOCUMENT,x"
CONTENT_ONLY_LINE == <<"D","O","C","U","M","E","N","T",",","x">>

\* "x,DATA A FER"
DUE_ONLY_LINE == <<"x",",","D","A","T","A"," ","A"," ","F","E","R">>

\* "7,Submit report,15/03/2024"
REPORT_ROW ==
    <<"7",",","S","u","b","m","i","t"," ","r","e","p","o","r","t",",","1","5","/","0",
      "3","/","2","0","2","4">>

\* ",,"
EMPTY_ROW == <<",",",">>

\* "2024, b ,"
YEAR_ROW == <<"2","0","2","4",","," ","b"," ",",">>

\* "3,,01/01/2024"
NO_CONTENT_ROW == <<"3",",",",","0","1","/","0","1","/","2","0","2","4">>

\* "4,y,05/13/2024"
MONTH_13_ROW == <<"4",",","y",",","0","5","/","1","3","/","2","0","2","4">>

\* "5,z"
SHORT_ROW == <<"5",",","z">>

\* "-,w,#value!"
SENTINEL_ROW == <<"-",",","w",",","#","v","a","l","u","e","!">>

\* "TERMINI,w,01/02/2024"
TERMINI_CELL_ROW ==
    <<"T","E","R","M","I","N","I",",","w",",","0","1","/","0","2","/","2","0","2","4">>

\* ",y,01/01/2024"
EMPTY_TERMINI_ROW == <<",","y",",","0","1","/","0","1","/","2","0","2","4">>

\* " ,z,01/01/2024"
BLANK_TERMINI_ROW == <<" ",",","z",",","0","1","/","0","1","/","2","0","2","4">>

\* bounds of the file family
MaxDataRows == 2

MaxBlankBeyond == 1

\* the header blocks a file may hold
HeaderBlocks ==
    { <<FULL_HEADER_LINE>>,
      <<NO_TERMINI_HEADER_LINE>>,
      <<CONTENT_HEADER_LINE, DUE_TERMINI_HEADER_LINE>>,
      <<TERMINI_HEADER_LINE, JUNK_LINE, NO_TERMINI_HEADER_LINE>>,
      <<TERMINI_HEADER_LINE>>,
      <<CONTENT_ONLY_LINE>>,
      <<DUE_ONLY_LINE>>,
      <<>> }

DataHeaderBlocks ==
    { <<FULL_HEADER_LINE>>,
      <<NO_TERMINI_HEADER_LINE>>,
      <<CONTENT_HEADER_LINE, DUE_TERMINI_HEADER_LINE>> }

DataLines ==
    {REPORT_ROW, EMPTY_ROW, YEAR_ROW, NO_CONTENT_ROW, MONTH_13_ROW, SHORT_ROW,
     SENTINEL_ROW}

Repeat(line, n) == [k \in 1..n |-> line]

\* what precedes the header block: nothing, the preamble of a sheet export,
\* or enough blank or junk lines to reach the end of the header scan
LeadIns ==
    { <<>>, << <<>>, JUNK_LINE >> }
    \cup { Repeat(line, n) :
             line \in {<<>>, EMPTY_ROW, JUNK_LINE},
             n \in (MAX_HEADER_SCAN_LINES - 1)..(MAX_HEADER_SCAN_LINES - 1 + MaxBlankBeyond) }

RowBlocks == UNION { [1..n -> DataLines] : n \in 0..MaxDataRows }

FileLines ==
    { lead \o header \o rows :
        lead \in LeadIns, header \in HeaderBlocks, rows \in {<<>>, <<REPORT_ROW>>} }
    \cup
    { lead \o header \o rows :
        lead \in {<<>>, << <<>>, JUNK_LINE >>}, header \in DataHeaderBlocks,
        rows \in RowBlocks }

\* layouts of the header scan and of the Termini cell: a header name repeated
\* in another column of a later line, two blank lines before the headers, a
\* data cell spelling a header name, an empty and a whitespace-only cell
LayoutLines ==
    { <<CONTENT_ONLY_LINE, NO_TERMINI_HEADER_LINE, REPORT_ROW>>,
      << <<>>, <<>>, FULL_HEADER_LINE, REPORT_ROW >>,
      <<NO_TERMINI_HEADER_LINE, REPORT_ROW, TERMINI_CELL_ROW, SHORT_ROW>>,
      <<FULL_HEADER_LINE, EMPTY_TERMINI_ROW, BLANK_TERMINI_ROW>> }

Files ==
    { Join(lines, <<"\n">>) : lines \in FileLines \cup LayoutLines }
    \cup { Join(lines, <<"\r", "\n">>) :
             lines \in { << <<>>, JUNK_LINE, FULL_HEADER_LINE, REPORT_ROW, EMPTY_ROW >> } }

-----------------------------------------------------------------------------
(* One due-date cell through import, export and re-import                  *)

InitDate ==
    /\ \E h \in Hosts :
          jsEngine = h.engine /\ timeZone = h.tz /\ currentYear = h.year
    /\ dateCell \in DateCells
    /\ pc = "cell"
    /\ dueDateField = Idle
    /\ rendered = <<>>
    /\ renormalized = Idle
    /\ fileText = <<>>
    /\ parseResult = Idle
    /\ tasks = <<>>
    /\ csvText = <<>>
    /\ reparseResult = Idle
    /\ againField = Idle
    /\ file = Idle
    /\ isLoading = FALSE
    /\ replaceExisting = FALSE
    /\ notified = <<>>
    /\ uuidCount = 0
    /\ editCount = 0
    /\ inFlight = 0

\* parseTaskFile stores the DateValue of the cell
NormalizeCell ==
    /\ pc = "cell"
    /\ dueDateField' = DueDateOfCell(dateCell, Host)
    /\ pc' = "stored"
    /\ UNCHANGED <<jsEngine, timeZone, currentYear, dateCell, rendered, renormalized,
                   fileText, parseResult, tasks, csvText, reparseResult,
                   againField, importerVars>>

\* exportTasksToCSV renders the stored value
RenderField ==
    /\ pc = "stored"
    /\ rendered' = ExportDueDate(dueDateField, Host)
    /\ pc' = "rendered"
    /\ UNCHANGED <<jsEngine, timeZone, currentYear, dateCell, dueDateField, renormalized,
                   fileText, parseResult, tasks, csvText, reparseResult,
                   againField, importerVars>>

\* the rendered text is normalised again
RenormalizeText ==
    /\ pc = "rendered"
    /\ renormalized' = ParseCustomDateString(rendered, Host)
    /\ pc' = "renormalized"
    /\ UNCHANGED <<jsEngine, timeZone, currentYear, dateCell, dueDateField, rendered,
                   fileText, parseResult, tasks, csvText, reparseResult,
                   againField, importerVars>>

\* time passes between two calls: new Date() moves to a later year
YearPasses ==
    /\ pc # "cell"
    /\ \E h \in Hosts : h.year > currentYear /\ currentYear' = h.year
    /\ UNCHANGED <<jsEngine, timeZone, pc, dateCell, dueDateField, rendered, renormalized,
                   againField, fileText, parseResult, tasks, csvText, reparseResult,
                   importerVars>>

\* the same cell is normalised a second time
NormalizeAgain ==
    /\ pc # "cell"
    /\ againField = Idle
    /\ againField' = DueDateOfCell(dateCell, Host)
    /\ UNCHANGED <<jsEngine, timeZone, currentYear, pc, dateCell, dueDateField, rendered,
                   renormalized, fileText, parseResult, tasks, csvText, reparseResult,
                   importerVars>>

NextDate ==
    \/ NormalizeCell
    \/ RenderField
    \/ RenormalizeText
    \/ YearPasses
    \/ NormalizeAgain

SpecDate == InitDate /\ [][NextDate]_vars

-----------------------------------------------------------------------------
(* A file through import, export and re-import of the export               *)

Init ==
    /\ \E h \in FileHosts :
          jsEngine = h.engine /\ timeZone = h.tz /\ currentYear = h.year
    /\ fileText \in Files
    /\ pc = "selected"
    /\ parseResult = Idle
    /\ tasks = <<>>
    /\ csvText = <<>>
    /\ reparseResult = Idle
    /\ dateCell = <<>>
    /\ dueDateField = Idle
    /\ rendered = <<>>
    /\ renormalized = Idle
    /\ againField = Idle
    /\ file = Idle
    /\ isLoading = FALSE
    /\ replaceExisting = FALSE
    /\ notified = <<>>
    /\ uuidCount = 0
    /\ editCount = 0
    /\ inFlight = 0

\* handleImport(true): parseTaskFile, createNewTaskObject for each record,
\* then the collection is replaced; a thrown error leaves it as it was
ImportFile ==
    /\ pc = "selected"
    /\ \E result \in {ParseTaskFile(fileText, Host)} :
          /\ parseResult' = result
          /\ IF result.kind = "ok"
             THEN /\ tasks' = [k \in 1..Len(result.tasks) |->
                                  CreateNewTaskObject(result.tasks[k], k, "now", Host)]
                  /\ pc' = "imported"
             ELSE /\ tasks' = tasks
                  /\ pc' = "failed"
    /\ UNCHANGED <<jsEngine, timeZone, currentYear, fileText, csvText, reparseResult,
                   dateCell, dueDateField, rendered, renormalized,
                   againField, importerVars>>

\* handleDownloadCSV: exportTasksToCSV of a non-empty collection
ExportCsv ==
    /\ pc = "imported"
    /\ tasks # <<>>
    /\ csvText' = ExportTasksToCSV(tasks, Host)
    /\ pc' = "exported"
    /\ UNCHANGED <<jsEngine, timeZone, currentYear, fileText, parseResult, tasks,
                   reparseResult, dateCell, dueDateField, rendered, renormalized,
                   againField, importerVars>>

\* the exported text is selected and parsed again
ReimportCsv ==
    /\ pc = "exported"
    /\ reparseResult' = ParseTaskFile(csvText, Host)
    /\ pc' = "reimported"
    /\ UNCHANGED <<jsEngine, timeZone, currentYear, fileText, parseResult, tasks,
                   csvText, dateCell, dueDateField, rendered, renormalized,
                   againField, importerVars>>

Next == ImportFile \/ ExportCsv \/ ReimportCsv

Spec == Init /\ [][Next]_vars

-----------------------------------------------------------------------------
(* The board: importer, manual additions, card edits, deletions, download  *)

\* handleTasksImported: setTasks(prevTasks => [...prevTasks, ...newTasks])
HandleTasksImported(prevTasks, newTasks) == prevTasks \o newTasks

\* handleTasksReplaced: setTasks(newTasks)
HandleTasksReplaced(prevTasks, newTasks) == newTasks

\* what the continuation of handleImport leaves in the collection: a thrown
\* parse error reaches the catch block before either callback is called
CommitImport_Partial(prevTasks, result, replace, newTasks) ==
    IF replace THEN HandleTasksReplaced(prevTasks, newTasks)
    ELSE HandleTasksImported(prevTasks, newTasks)

CommitImport(prevTasks, result, replace, newTasks) ==
    IF result.kind = "error" THEN prevTasks
    ELSE IF replace THEN HandleTasksReplaced(prevTasks, newTasks)
    ELSE HandleTasksImported(prevTasks, newTasks)

\* the callback the continuation of handleImport calls
CalledBack(result, replace) ==
    IF result.kind = "error" THEN <<>>
    ELSE IF replace THEN <<"onTasksReplaced">> ELSE <<"onTasksImported">>

\* one identifier drawn for the whole file
NewTasks_OneId(result, firstUuid, now, host) ==
    IF result.kind = "error" THEN <<>>
    ELSE [k \in 1..Len(result.tasks) |->
            CreateNewTaskObject(result.tasks[k], firstUuid + 1, now, host)]

\* partialTasks.map(pt => createNewTaskObject(pt)); nothing when the parse threw
NewTasks(result, firstUuid, now, host) ==
    IF result.kind = "error" THEN <<>>
    ELSE [k \in 1..Len(result.tasks) |->
            CreateNewTaskObject(result.tasks[k], firstUuid + k, now, host)]

\* an update of the adjusted date also lands in the original due date
Spread_BothDates(task, updates) ==
    [f \in DOMAIN task \cup DOMAIN updates |->
        IF f \in DOMAIN updates THEN updates[f]
        ELSE IF f = "originalDueDate" /\ "adjustedDate" \in DOMAIN updates
        THEN updates.adjustedDate
        ELSE task[f]]

\* { ...task, ...updates }
Spread(task, updates) ==
    [f \in DOMAIN task \cup DOMAIN updates |->
        IF f \in DOMAIN updates THEN updates[f] ELSE task[f]]

\* handleUpdateTask
HandleUpdateTask(prevTasks, id, updates) ==
    [k \in 1..Len(prevTasks) |->
        IF prevTasks[k].id = id THEN Spread(prevTasks[k], updates) ELSE prevTasks[k]]

\* handleDeleteTask
HandleDeleteTask(prevTasks, id) ==
    LET Other(task) == task.id # id
    IN  SelectSeq(prevTasks, Other)

\* handleManualTaskSubmit: the task built from the values of the form
ManualTask(values, uuid, now, host) ==
    LET Dated(d) ==
            CreateNewTaskObject(
                [content |-> values.content,
                 terminiRaw |-> IF values.terminiRaw = <<>> THEN NOT_APPLICABLE
                                ELSE values.terminiRaw,
                 originalDueDate |-> d,
                 adjustedDate |-> d,
                 status |-> values.status,
                 color |-> values.color], uuid, now, host)
    IN  Dated(IF IsDate(values.adjustedDate) THEN values.adjustedDate
              ELSE TextValue(DATA_NO_ESPECIFICADA))

\* "8,say "hi",-"
QUOTED_ROW == <<"8",",","s","a","y"," ","\"","h","i","\"",",","-">>

\* "Buy milk, eggs"
BUY_MILK_EGGS == <<"B","u","y"," ","m","i","l","k",","," ","e","g","g","s">>

\* "2024-3-5"
DATE_LIKE_TEXT == <<"2","0","2","4","-","3","-","5">>

\* "#FFFACD"
YELLOW == <<"#","F","F","F","A","C","D">>

\* bounds of a session on the board
MaxUuids == 2

MaxEdits == 1

BoardHosts == {h \in Hosts : h.year = 2026 /\ h.tz = "west"}

\* the files the user may select: one that imports and one without the
\* due-date header, whose rows are valid
BoardFiles ==
    { Join(<<FULL_HEADER_LINE, REPORT_ROW, NO_CONTENT_ROW, QUOTED_ROW>>, <<"\n">>),
      Join(<<CONTENT_ONLY_LINE, REPORT_ROW, SENTINEL_ROW>>, <<"\n">>) }

\* what the add-task form may submit
FormValues ==
    { [content |-> BUY_MILK_EGGS, terminiRaw |-> <<>>,
       adjustedDate |-> DateAt(2025, 1, 10, FALSE),
       status |-> "En progrés", color |-> INITIAL_POSTIT_COLOR] }

\* what the cards may be edited to
EditedContents == { BUY_MILK_EGGS \o <<" ">>, <<" ", " ">> }
EditedTermini == { <<" ">> \o DATE_LIKE_TEXT }
SelectedDates == { DateAt(2025, 2, 28, FALSE), NullDate }
PickedColors == { YELLOW }
PickedStatuses == { "Completat" }

InitBoard ==
    /\ \E h \in BoardHosts :
          jsEngine = h.engine /\ timeZone = h.tz /\ currentYear = h.year
    /\ pc = "idle"
    /\ file = Idle
    /\ isLoading = FALSE
    /\ replaceExisting = FALSE
    /\ notified = <<>>
    /\ uuidCount = 0
    /\ editCount = 0
    /\ inFlight = 0
    /\ tasks = <<>>
    /\ fileText = <<>>
    /\ parseResult = Idle
    /\ csvText = <<>>
    /\ reparseResult = Idle
    /\ dateCell = <<>>
    /\ dueDateField = Idle
    /\ rendered = <<>>
    /\ renormalized = Idle
    /\ againField = Idle

\* variables the board never writes
dateVars == <<jsEngine, timeZone, dateCell, dueDateField, rendered, renormalized,
              againField, reparseResult>>

\* parseResult and notified show what the latest step's parse returned and
\* which callback it called: a step that does neither leaves them empty
Quiet ==
    /\ parseResult' = Idle
    /\ notified' = <<>>
    /\ csvText' = csvText

\* handleFileChange / handleDrop: a CSV file becomes the selected file
HandleFileChange ==
    /\ \E text \in BoardFiles : file' = [kind |-> "file", text |-> text]
    /\ Quiet
    /\ UNCHANGED <<dateVars, currentYear, pc, isLoading, replaceExisting, uuidCount,
                   editCount, tasks, fileText, inFlight>>

\* import buttons that stay enabled while an import is in flight
HandleImport_WhileLoading ==
    /\ file # Idle
    /\ uuidCount < MaxUuids
    /\ \E replace \in BOOLEAN : replaceExisting' = replace
    /\ isLoading' = TRUE
    /\ pc' = "parsing"
    /\ fileText' = file.text
    /\ inFlight' = inFlight + 1
    /\ Quiet
    /\ UNCHANGED <<dateVars, currentYear, file, uuidCount, editCount, tasks>>

\* handleImport up to its await: the buttons are disabled while no file is
\* selected or an import is in flight
HandleImport ==
    /\ file # Idle
    /\ ~isLoading
    /\ uuidCount < MaxUuids
    /\ \E replace \in BOOLEAN : replaceExisting' = replace
    /\ isLoading' = TRUE
    /\ pc' = "parsing"
    /\ fileText' = file.text
    /\ inFlight' = inFlight + 1
    /\ Quiet
    /\ UNCHANGED <<dateVars, currentYear, file, uuidCount, editCount, tasks>>

\* a continuation without the finally block: a thrown parse error leaves
\* isLoading set
ImportSettles_NoFinally ==
    /\ pc = "parsing"
    /\ \E result \in {ParseTaskFile(fileText, Host)} :
          \E newTasks \in {NewTasks(result, uuidCount, currentYear, Host)} :
             /\ parseResult' = result
             /\ tasks' = CommitImport(tasks, result, replaceExisting, newTasks)
             /\ notified' = CalledBack(result, replaceExisting)
             /\ uuidCount' = uuidCount + Len(newTasks)
             /\ file' = IF result.kind = "error" THEN file ELSE Idle
             /\ isLoading' = (result.kind = "error")
    /\ pc' = "idle"
    /\ fileText' = <<>>
    /\ inFlight' = inFlight - 1
    /\ UNCHANGED <<dateVars, currentYear, editCount, replaceExisting, csvText>>

\* handleImport after its await: parseTaskFile has resolved or thrown
ImportSettles ==
    /\ pc = "parsing"
    /\ \E result \in {ParseTaskFile(fileText, Host)} :
          \E newTasks \in {NewTasks(result, uuidCount, currentYear, Host)} :
             /\ parseResult' = result
             /\ tasks' = CommitImport(tasks, result, replaceExisting, newTasks)
             /\ notified' = CalledBack(result, replaceExisting)
             /\ uuidCount' = uuidCount + Len(newTasks)
             /\ file' = IF result.kind = "error" THEN file ELSE Idle
    /\ isLoading' = FALSE
    /\ pc' = "idle"
    /\ fileText' = <<>>
    /\ inFlight' = inFlight - 1
    /\ UNCHANGED <<dateVars, currentYear, editCount, replaceExisting, csvText>>

\* handleManualTaskSubmit: the new task is put first
HandleManualTaskSubmit ==
    /\ uuidCount < MaxUuids
    /\ \E values \in FormValues :
          tasks' = <<ManualTask(values, uuidCount + 1, currentYear, Host)>> \o tasks
    /\ uuidCount' = uuidCount + 1
    /\ Quiet
    /\ UNCHANGED <<dateVars, currentYear, pc, file, isLoading, replaceExisting,
                   editCount, fileText, inFlight>>

boardFrame == <<dateVars, currentYear, pc, file, isLoading, replaceExisting, uuidCount,
                fileText, inFlight>>

\* handleSaveContent of a card
HandleSaveContent ==
    /\ editCount < MaxEdits
    /\ \E k \in 1..Len(tasks) : \E editedContent \in EditedContents :
          /\ Trim(editedContent) # tasks[k].content
          /\ tasks' = HandleUpdateTask(tasks, tasks[k].id,
                                       [content |-> Trim(editedContent)])
    /\ editCount' = editCount + 1
    /\ Quiet
    /\ UNCHANGED boardFrame

\* handleSaveTermini of a card
HandleSaveTermini ==
    /\ editCount < MaxEdits
    /\ \E k \in 1..Len(tasks) : \E editedTerminiRaw \in EditedTermini :
          /\ Trim(editedTerminiRaw) # tasks[k].terminiRaw
          /\ tasks' = HandleUpdateTask(tasks, tasks[k].id,
                                       [terminiRaw |-> Trim(editedTerminiRaw)])
    /\ editCount' = editCount + 1
    /\ Quiet
    /\ UNCHANGED boardFrame

\* the selected day stored as the text the card shows
HandleDateSelect_AsText ==
    /\ editCount < MaxEdits
    /\ \E k \in 1..Len(tasks) : \E selectedDate \in SelectedDates :
          tasks' = HandleUpdateTask(tasks, tasks[k].id,
                      [adjustedDate |-> IF IsDate(selectedDate)
                                        THEN TextValue(FormatDate(selectedDate, Host))
                                        ELSE TextValue(DATA_NO_ESPECIFICADA)])
    /\ editCount' = editCount + 1
    /\ Quiet
    /\ UNCHANGED boardFrame

\* handleDateSelect of a card: a day of the calendar, or the selection cleared
HandleDateSelect ==
    /\ editCount < MaxEdits
    /\ \E k \in 1..Len(tasks) : \E selectedDate \in SelectedDates :
          tasks' = HandleUpdateTask(tasks, tasks[k].id,
                      [adjustedDate |-> IF IsDate(selectedDate) THEN selectedDate
                                        ELSE TextValue(DATA_NO_ESPECIFICADA)])
    /\ editCount' = editCount + 1
    /\ Quiet
    /\ UNCHANGED boardFrame

\* handleColorChange of a card
HandleColorChange ==
    /\ editCount < MaxEdits
    /\ \E k \in 1..Len(tasks) : \E color \in PickedColors :
          tasks' = HandleUpdateTask(tasks, tasks[k].id, [color |-> color])
    /\ editCount' = editCount + 1
    /\ Quiet
    /\ UNCHANGED boardFrame

\* handleStatusChange of a card
HandleStatusChange ==
    /\ editCount < MaxEdits
    /\ \E k \in 1..Len(tasks) : \E status \in PickedStatuses :
          tasks' = HandleUpdateTask(tasks, tasks[k].id, [status |-> status])
    /\ editCount' = editCount + 1
    /\ Quiet
    /\ UNCHANGED boardFrame

\* the delete entry of a card's menu
DeleteCard ==
    /\ \E k \in 1..Len(tasks) : tasks' = HandleDeleteTask(tasks, tasks[k].id)
    /\ Quiet
    /\ UNCHANGED <<boardFrame, editCount>>

\* requestClearAllTasks, then confirmClearAllTasks
ConfirmClearAllTasks ==
    /\ tasks # <<>>
    /\ tasks' = <<>>
    /\ Quiet
    /\ UNCHANGED <<boardFrame, editCount>>

NextBoard ==
    \/ HandleFileChange
    \/ HandleImport
    \/ ImportSettles
    \/ HandleManualTaskSubmit
    \/ HandleSaveContent
    \/ HandleSaveTermini
    \/ HandleDateSelect
    \/ HandleColorChange
    \/ HandleStatusChange
    \/ DeleteCard
    \/ ConfirmClearAllTasks

SpecBoard == InitBoard /\ [][NextBoard]_vars

\* the step of ImportSettles as pc shows it: ImportSettles is enabled whenever
\* pc is "parsing" and no other action takes pc from there to "idle"
ContinuationRuns == pc = "parsing" /\ pc' = "idle"

\* the promise of file.text() settles and the event loop runs the continuation
\* of handleImport: an import that has started is not left waiting for ever
SpecBoardFair == InitBoard /\ [][NextBoard]_vars /\ WF_pc(ContinuationRuns)

-----------------------------------------------------------------------------
(* One text cell through escapeCsvCell                                     *)

\* "say "hi""
SAY_HI == <<"s","a","y"," ","\"","h","i","\"">>

\* the texts a terminiRaw or a content may hold
CellTexts ==
    { BUY_MILK_EGGS, SAY_HI, DATE_LIKE_TEXT, NOT_APPLICABLE, VALUE_ERROR,
      <<"C","a","l","l">>, <<"a","\n","b">>, <<"\"">>, <<",">>, <<>>,
      <<"x",",","\"","y","\"">>, <<"2","0","2","4">>, <<"7">>,
      <<"1","5","/","0","3","/","2","0","2","4">> }

InitCell ==
    /\ \E h \in Hosts :
          jsEngine = h.engine /\ timeZone = h.tz /\ currentYear = h.year
    /\ dateCell \in CellTexts
    /\ pc = "cell"
    /\ dueDateField = Idle
    /\ rendered = <<>>
    /\ renormalized = Idle
    /\ againField = Idle
    /\ fileText = <<>>
    /\ parseResult = Idle
    /\ tasks = <<>>
    /\ csvText = <<>>
    /\ reparseResult = Idle
    /\ file = Idle
    /\ isLoading = FALSE
    /\ replaceExisting = FALSE
    /\ notified = <<>>
    /\ uuidCount = 0
    /\ editCount = 0
    /\ inFlight = 0

\* exportTasksToCSV emits the cell
EscapeCell ==
    /\ pc = "cell"
    /\ rendered' = EscapeCsvCell(dateCell, Host)
    /\ pc' = "escaped"
    /\ UNCHANGED <<jsEngine, timeZone, currentYear, dateCell, dueDateField, renormalized,
                   againField, fileText, parseResult, tasks, csvText, reparseResult,
                   importerVars>>

NextCell == EscapeCell

SpecCell == InitCell /\ [][NextCell]_vars

-----------------------------------------------------------------------------
(* Properties of the date normaliser (SpecDate)                            *)

\* a date of the calendar: year 1 or later, month 1..12, a day of that month
IsCalendarDate(y, m, d) == y >= 1 /\ m \in 1..12 /\ d >= 1 /\ d <= DaysInMonth(y, m)

SlashText(d, m, y) == d \o <<"/">> \o m \o <<"/">> \o y

HyphenText(y, m, d) == y \o <<"-">> \o m \o <<"-">> \o d

\* the calendar date a stored Date shows in the host's local time
SameLocalDay(a, b) ==
    LocalFields(a, Host) = LocalFields(b, Host)

\* C1: a concrete date stored as a record's originalDueDate (a date of the
\* calendar, so of year 1 or later, whichever format produced it), rendered by
\* the export as dd/MM/yyyy and normalised again by parseCustomDateString, is
\* a concrete date with the same year, month and day
C1_DateRoundTrip ==
    (pc = "renormalized" /\ IsDate(dueDateField) /\ LocalFields(dueDateField, Host).y >= 1)
        => (IsDate(renormalized) /\ SameLocalDay(renormalized, dueDateField))

C1_Witness ==
    /\ pc = "renormalized"
    /\ dateCell = <<"2","0","2","4","-","1","-","0","5">>
    /\ timeZone = "west"
    /\ IsDate(dueDateField) /\ dueDateField.utc
    /\ rendered = <<"0","4","/","0","1","/","2","0","2","4">>
    /\ renormalized = DateAt(2024, 1, 4, FALSE)


\* the texts of DateCells of the shapes day/month/4-digit-year and
\* 4-digit-year-month-day, with the numbers they spell
SlashDates ==
    { [text |-> SlashText(d, m, y), y |-> ParseInt(y), m |-> ParseInt(m), d |-> ParseInt(d)] :
        d \in DayTexts, m \in MonthTexts, y \in Year4Texts }

HyphenDates ==
    { [text |-> HyphenText(y, m, d), y |-> ParseInt(y), m |-> ParseInt(m), d |-> ParseInt(d)] :
        y \in Year4Texts, m \in MonthTexts, d \in DayTexts }

ValidSlashDates == { v \in SlashDates : IsCalendarDate(v.y, v.m, v.d) }

\* C3: text day/month/4-digit-year whose day, month and year form a date of
\* the calendar is normalised to the concrete date with exactly that day,
\* month and year
C3_ValidDayMonthYearIsThatDate ==
    \A v \in ValidSlashDates :
        (pc # "cell" /\ dateCell = v.text)
            => dueDateField = DateAt(v.y, v.m, v.d, FALSE)

C3_Witness ==
    /\ pc = "stored"
    /\ dateCell = <<"2","9","/","0","2","/","2","0","2","4">>
    /\ dueDateField = DateAt(2024, 2, 29, FALSE)

\* texts of a recognised shape whose day, month and year form no date of the
\* calendar, and text of no recognised shape
InvalidDateTexts ==
    { v.text : v \in { u \in SlashDates \cup HyphenDates : ~IsCalendarDate(u.y, u.m, u.d) } }
    \cup { <<"s","o","o","n">> }

\* C4 (as claimed): text that names no valid date in a recognised format, such
\* as 05/13/2024, is stored as a placeholder holding that text, never as a
\* concrete date
C4_InvalidTextIsPlaceholder ==
    (pc # "cell" /\ dateCell \in InvalidDateTexts)
        => dueDateField = TextValue(dateCell)

\* C5 (as claimed): a due-date cell holding a sentinel text is stored as a
\* placeholder holding exactly that text
C5_SentinelKeptVerbatim ==
    (pc # "cell" /\ dateCell \in SentinelTexts)
        => dueDateField = TextValue(dateCell)

\* C5 (as the code has it): a due-date cell holding a sentinel text is never
\* read as a date; the record holds that text unchanged, except that an empty
\* cell is recorded as "Data no especificada"
C5_SentinelIsPlaceholder ==
    /\ (pc # "cell" /\ dateCell \in SentinelTexts)
          => dueDateField =
                TextValue(IF dateCell = <<>> THEN DATA_NO_ESPECIFICADA ELSE dateCell)
    /\ (pc = "renormalized" /\ dateCell \in SentinelTexts)
          => (rendered = dueDateField.text /\ renormalized = NullDate)

C5_Witness ==
    /\ pc = "renormalized"
    /\ dateCell = <<>>
    /\ dueDateField = TextValue(DATA_NO_ESPECIFICADA)
    /\ renormalized = NullDate

-----------------------------------------------------------------------------
(* Properties of parseTaskFile and exportTasksToCSV (Spec)                 *)

\* the trimmed text of the cell of a line at a 0-based column, "" when the
\* line has no such cell
CellAt(line, col) ==
    LET In(row) == IF col >= 0 /\ col < Len(row) THEN Trim(row[col + 1]) ELSE <<>>
    IN  In(Split(line, ","))

\* some cell of some line spells one of the variants of a header
HeaderIn(lines, variants) ==
    \E i \in 1..Len(lines) :
        \E row \in {Split(lines[i], ",")} :
            \E k \in 1..Len(row) :
                \E j \in 1..Len(variants) : CleanHeader(row[k]) = variants[j]

FirstLines(lines, n) == SubSeq(lines, 1, IF Len(lines) < n THEN Len(lines) ELSE n)

NonBlankLines(lines) ==
    LET NonBlank(line) == ~IsBlankLine(line)
    IN  SelectSeq(lines, NonBlank)

\* the lines from dataStartRow on whose content cell is not empty
ContentLines(lines, result) ==
    LET HasContent(line) == CellAt(line, result.contentColIndex) # <<>>
    IN  SelectSeq(SubSeq(lines, result.dataStartRow + 1, Len(lines)), HasContent)

Parsed == pc \in {"imported", "failed"}

SameDateValue(a, b) ==
    IF IsDate(a) /\ IsDate(b) THEN SameLocalDay(a, b) ELSE a = b

NoDelimiter(s) == ~Includes(s, ",") /\ ~Includes(s, "\"") /\ ~Includes(s, "\n")

\* C2 (as claimed): records of an import whose cells hold no comma, quote or
\* newline come back from parseTaskFile(exportTasksToCSV(records)) in the same
\* number and order, each with the same terminiRaw, content and originalDueDate
C2_ExportImportRoundTrip ==
    (/\ pc = "reimported"
     /\ \A k \in 1..Len(tasks) :
           /\ NoDelimiter(tasks[k].terminiRaw)
           /\ NoDelimiter(tasks[k].content)
           /\ IsText(tasks[k].originalDueDate) => NoDelimiter(tasks[k].originalDueDate.text))
    => /\ reparseResult.kind = "ok"
       /\ Len(reparseResult.tasks) = Len(tasks)
       /\ \A k \in 1..Len(tasks) :
             /\ reparseResult.tasks[k].terminiRaw = tasks[k].terminiRaw
             /\ reparseResult.tasks[k].content = tasks[k].content
             /\ SameDateValue(reparseResult.tasks[k].originalDueDate,
                              tasks[k].originalDueDate)

\* C6: the text of a due-date cell never fails the parse and never drops a
\* row: every line after the headers with a non-empty content cell yields a
\* record, holding a concrete date or a placeholder
C6_DateNeverDropsRow ==
    /\ pc = "imported" =>
          \A lines \in {SplitLines(fileText)} :
             /\ Len(parseResult.tasks) = Len(ContentLines(lines, parseResult))
             /\ \A k \in 1..Len(parseResult.tasks) :
                   \/ IsDate(parseResult.tasks[k].originalDueDate)
                   \/ IsText(parseResult.tasks[k].originalDueDate)
    /\ pc = "failed" =>
          /\ parseResult.kind = "error"
          /\ \A k \in 1..Len(parseResult.errorMessages) :
                parseResult.errorMessages[k].column \in {"Contingut", "Data a Fer"}

C6_Witness ==
    /\ pc = "imported"
    /\ jsEngine = "strict"
    /\ fileText = Join(<<FULL_HEADER_LINE, MONTH_13_ROW, SHORT_ROW>>, <<"\n">>)
    /\ Len(parseResult.tasks) = 2
    /\ parseResult.tasks[1].originalDueDate =
          TextValue(<<"0","5","/","1","3","/","2","0","2","4">>)
    /\ parseResult.tasks[2].originalDueDate = TextValue(DATA_NO_ESPECIFICADA)

\* the messages of a file whose first lines lack a mandatory header
MissingMandatory(window) ==
    (IF HeaderIn(window, HEADER_VARIANTS_CONTENT) THEN <<>>
     ELSE << [column |-> "Contingut", variants |-> HEADER_VARIANTS_CONTENT] >>)
    \o
    (IF HeaderIn(window, HEADER_VARIANTS_DUE_DATE) THEN <<>>
     ELSE << [column |-> "Data a Fer", variants |-> HEADER_VARIANTS_DUE_DATE] >>)

\* C7 (as claimed): the parse fails when any of Termini, Content and DueDate
\* is unresolved, so that extraction only runs with all three column indices
\* non-negative
C7_AllThreeHeadersRequired ==
    Parsed =>
        (parseResult.kind = "ok" =>
            /\ parseResult.terminiColIndex >= 0
            /\ parseResult.contentColIndex >= 0
            /\ parseResult.dueDateColIndex >= 0)

\* C7 (as the code has it): the parse fails when Content or DueDate is
\* unresolved, with an error naming exactly the missing ones of these two and
\* the variants searched, and nothing is extracted; otherwise extraction runs
\* with the Content and DueDate indices non-negative, whether or not Termini
\* was found
C7_MandatoryHeadersRequired ==
    Parsed =>
        \A missing \in {MissingMandatory(FirstLines(SplitLines(fileText),
                                                    MAX_HEADER_SCAN_LINES))} :
            IF missing # <<>>
            THEN /\ pc = "failed"
                 /\ parseResult = [kind |-> "error", errorMessages |-> missing]
                 /\ tasks = <<>>
            ELSE /\ pc = "imported"
                 /\ parseResult.kind = "ok"
                 /\ parseResult.contentColIndex >= 0
                 /\ parseResult.dueDateColIndex >= 0
                 /\ parseResult.terminiColIndex >= -1

C7_Witness ==
    /\ pc = "failed"
    /\ fileText = Join(<<CONTENT_ONLY_LINE, REPORT_ROW>>, <<"\n">>)
    /\ parseResult.errorMessages =
          << [column |-> "Data a Fer", variants |-> HEADER_VARIANTS_DUE_DATE] >>

\* C8: a file with the Content and DueDate headers and no Termini header is
\* parsed, and every record of it has terminiRaw "N/A"
C8_TerminiOptional ==
    Parsed =>
        \A window \in {FirstLines(SplitLines(fileText), MAX_HEADER_SCAN_LINES)} :
            (/\ HeaderIn(window, HEADER_VARIANTS_CONTENT)
             /\ HeaderIn(window, HEADER_VARIANTS_DUE_DATE)
             /\ ~HeaderIn(window, HEADER_VARIANTS_TERMINI))
            => /\ parseResult.kind = "ok"
               /\ parseResult.terminiColIndex = -1
               /\ Len(tasks) = Len(parseResult.tasks)
               /\ \A k \in 1..Len(tasks) :
                     /\ parseResult.tasks[k].terminiRaw = NOT_APPLICABLE
                     /\ tasks[k].terminiRaw = NOT_APPLICABLE

C8_Witness ==
    /\ pc = "imported"
    /\ fileText = Join(<<NO_TERMINI_HEADER_LINE, REPORT_ROW, YEAR_ROW>>, <<"\n">>)
    /\ parseResult.terminiColIndex = -1
    /\ Len(tasks) = 2
    /\ tasks[1].terminiRaw = NOT_APPLICABLE
    /\ tasks[2].terminiRaw = NOT_APPLICABLE

\* C9 (as claimed): the headers are searched on the first 20 non-blank lines,
\* so a header there is located however many blank lines precede it
C9_WindowOfNonBlankLines ==
    Parsed =>
        \A window \in {FirstLines(NonBlankLines(SplitLines(fileText)),
                                  MAX_HEADER_SCAN_LINES)} :
            parseResult.kind = "ok"
                <=> (/\ HeaderIn(window, HEADER_VARIANTS_CONTENT)
                     /\ HeaderIn(window, HEADER_VARIANTS_DUE_DATE))

\* C9 (as the code has it): the headers are searched on the first 20 lines of
\* the file, blank lines counted: a header is located exactly when it lies on
\* one of them, and no later line is consulted
C9_WindowOfFirstLines ==
    Parsed =>
        \A window \in {FirstLines(SplitLines(fileText), MAX_HEADER_SCAN_LINES)} :
            /\ parseResult.kind = "ok"
                  <=> (/\ HeaderIn(window, HEADER_VARIANTS_CONTENT)
                       /\ HeaderIn(window, HEADER_VARIANTS_DUE_DATE))
            /\ parseResult.kind = "ok" =>
                  /\ parseResult.dataStartRow <= MAX_HEADER_SCAN_LINES
                  /\ parseResult.terminiColIndex >= 0
                        <=> HeaderIn(window, HEADER_VARIANTS_TERMINI)

C9_Witness ==
    /\ pc = "failed"
    /\ fileText = Join(Repeat(<<>>, MAX_HEADER_SCAN_LINES)
                       \o <<FULL_HEADER_LINE, REPORT_ROW>>, <<"\n">>)
    /\ Len(parseResult.errorMessages) = 2

\* C10: the records are the lines after the headers that are not blank and
\* have a non-empty content cell, one record per line, in file order; of the
\* example file only 7 / Submit report / 15 March 2024 is returned
C10_RowsFilteredInOrder ==
    pc = "imported" =>
        \A kept \in {ContentLines(SplitLines(fileText), parseResult)} :
            /\ Len(parseResult.tasks) = Len(kept)
            /\ \A k \in 1..Len(kept) :
                  /\ ~IsBlankLine(kept[k])
                  /\ parseResult.tasks[k].content =
                        CellAt(kept[k], parseResult.contentColIndex)
                  /\ tasks[k].content = parseResult.tasks[k].content
                  /\ parseResult.terminiColIndex >= 0 =>
                        parseResult.tasks[k].terminiRaw \in
                            {CellAt(kept[k], parseResult.terminiColIndex), NOT_APPLICABLE}

C10_Witness ==
    /\ pc = "imported"
    /\ fileText = Join(<< <<>>, JUNK_LINE, FULL_HEADER_LINE, REPORT_ROW, EMPTY_ROW >>,
                       <<"\n">>)
    /\ parseResult.dataStartRow = 3
    /\ parseResult.tasks =
          << [terminiRaw |-> <<"7">>,
              content |-> <<"S","u","b","m","i","t"," ","r","e","p","o","r","t">>,
              originalDueDate |-> DateAt(2024, 3, 15, FALSE),
              adjustedDate |-> DateAt(2024, 3, 15, FALSE)] >>

\* a line with fewer comma-split cells than the highest resolved column index
IsShortRow(line, result) ==
    \E n \in {Len(Split(line, ","))} :
        \/ n <= result.terminiColIndex
        \/ n <= result.contentColIndex
        \/ n <= result.dueDateColIndex

\* C11 (as claimed): a line after the headers with fewer cells than the
\* highest resolved column index yields no record, whatever its content cell
C11_ShortRowSkipped ==
    pc = "imported" =>
        \A lines \in {SplitLines(fileText)} :
            LET Enough(line) == ~IsShortRow(line, parseResult)
            IN  Len(parseResult.tasks) =
                    Len(SelectSeq(ContentLines(lines, parseResult), Enough))

\* C11 (as the code has it): a line with fewer cells than the highest resolved
\* column index is not skipped for that: it yields a record exactly when its
\* content cell is present and not empty, and the record takes "N/A" for a
\* Termini cell the line does not reach and "Data no especificada" for a
\* due-date cell it does not reach
C11_ShortRowUsesDefaults ==
    pc = "imported" =>
        \A kept \in {ContentLines(SplitLines(fileText), parseResult)} :
            /\ Len(parseResult.tasks) = Len(kept)
            /\ \A k \in 1..Len(kept) :
                  \A n \in {Len(Split(kept[k], ","))} :
                     /\ n > parseResult.contentColIndex
                     /\ n <= parseResult.terminiColIndex =>
                           parseResult.tasks[k].terminiRaw = NOT_APPLICABLE
                     /\ n <= parseResult.dueDateColIndex =>
                           /\ parseResult.tasks[k].originalDueDate =
                                 TextValue(DATA_NO_ESPECIFICADA)
                           /\ parseResult.tasks[k].adjustedDate =
                                 TextValue(DATA_NO_ESPECIFICADA)

C11_Witness ==
    /\ pc = "imported"
    /\ fileText = Join(<<FULL_HEADER_LINE, SHORT_ROW, REPORT_ROW>>, <<"\n">>)
    /\ IsShortRow(SHORT_ROW, parseResult)
    /\ Len(parseResult.tasks) = 2
    /\ parseResult.tasks[1] =
          [terminiRaw |-> <<"5">>, content |-> <<"z">>,
           originalDueDate |-> TextValue(DATA_NO_ESPECIFICADA),
           adjustedDate |-> TextValue(DATA_NO_ESPECIFICADA)]

\* the lines after the located headers
DataRegion(lines, result) == SubSeq(lines, result.dataStartRow + 1, Len(lines))

\* C12 (as claimed): when the headers are located and no data row follows
\* them (the header is the last line, or only blank lines follow), the import
\* ends with an error and not with an empty list: a parse that succeeds has
\* a line after the headers that is not blank
C12_NoDataRowsIsFailure ==
    pc = "imported" =>
        \A region \in {DataRegion(SplitLines(fileText), parseResult)} :
            \E k \in 1..Len(region) : ~IsBlankLine(region[k])

-----------------------------------------------------------------------------
(* Properties of the board (SpecBoard)                                     *)

\* the step in which an import in flight ends with parseTaskFile throwing
ImportThrows ==
    /\ pc = "parsing"
    /\ pc' = "idle"
    /\ parseResult'.kind = "error"

\* C13: when parseTaskFile throws during handleImport, in append or replace
\* mode, neither onTasksImported nor onTasksReplaced is called and the
\* collection after the step is the collection before it
C13_NoPartialImport ==
    [][ImportThrows => (tasks' = tasks /\ notified' = <<>>)]_vars

C13_Witness ==
    /\ pc = "idle"
    /\ parseResult.kind = "error"
    /\ replaceExisting
    /\ notified = <<>>
    /\ Len(tasks) = 2
    /\ file = [kind |-> "file",
               text |-> Join(<<CONTENT_ONLY_LINE, REPORT_ROW, SENTINEL_ROW>>, <<"\n">>)]

\* the step in which an import in flight ends, either way
ImportEnds == pc = "parsing" /\ pc' = "idle"

\* the task of the collection after the step was not in it before the step
IsNewTask(task) == \A i \in 1..Len(tasks) : tasks[i].id # task.id

\* the step is handleDateSelect of the card with this id
DateEditOf(id) ==
    /\ editCount' = editCount + 1
    /\ \E selectedDate \in SelectedDates :
          tasks' = HandleUpdateTask(tasks, id,
                      [adjustedDate |-> IF IsDate(selectedDate) THEN selectedDate
                                        ELSE TextValue(DATA_NO_ESPECIFICADA)])

-----------------------------------------------------------------------------
(* Properties of the serializer                                            *)

\* the cells of the row exported for the k-th task
ExportedCells(text, k) == Split(SplitLines(text)[k + 1], ",")

\* C15 (as claimed): the first two cells of each exported row are the
\* record's terminiRaw and content as stored; a text without comma, quote or
\* newline is emitted unchanged, also when it looks like a date or a number
C15_TextCellsAsStored ==
    pc = "exported" =>
        \A k \in 1..Len(tasks) :
            \A cells \in {ExportedCells(csvText, k)} :
                /\ NoDelimiter(tasks[k].terminiRaw) => cells[1] = tasks[k].terminiRaw
                /\ NoDelimiter(tasks[k].content) => cells[2] = tasks[k].content

\* the same tasks with another adjusted date, status, colour, id and creation
\* time
Retouched(taskList) ==
    [k \in 1..Len(taskList) |->
        [taskList[k] EXCEPT !.adjustedDate = IF IsDate(@) THEN TextValue(DASH)
                                             ELSE DateAt(2025, 2, 28, FALSE),
                            !.status = "Arxivat",
                            !.color = <<"#","A","D","D","8","E","6">>,
                            !.id = @ + 100,
                            !.createdAt = "later"]]

\* C16: the third cell of each exported row is the dd/MM/yyyy rendering of
\* originalDueDate when it is a concrete date and its placeholder text as it
\* is otherwise ("#VALUE!" stays "#VALUE!"), and a list that differs only in
\* adjustedDate, status, color, id and createdAt exports to the same text
C16_DateCellFromOriginalDueDate ==
    pc = "exported" =>
        /\ \A k \in 1..Len(tasks) :
              \A cells \in {ExportedCells(csvText, k)} :
                 /\ Len(cells) = 3
                 /\ IsDate(tasks[k].originalDueDate) =>
                       cells[3] = FormatDate(tasks[k].originalDueDate, Host)
                 /\ IsText(tasks[k].originalDueDate) =>
                       cells[3] = tasks[k].originalDueDate.text
        /\ ExportTasksToCSV(Retouched(tasks), Host) = csvText

C16_Witness ==
    /\ pc = "exported"
    /\ fileText = Join(<<FULL_HEADER_LINE, REPORT_ROW, SENTINEL_ROW>>, <<"\n">>)
    /\ ExportedCells(csvText, 1)[3] = <<"1","5","/","0","3","/","2","0","2","4">>
    /\ tasks[2].originalDueDate = TextValue(<<"#","v","a","l","u","e","!">>)
    /\ ExportedCells(csvText, 2)[3] = <<"#","v","a","l","u","e","!">>

HasDelimiter(s) == Includes(s, ",") \/ Includes(s, "\n") \/ Includes(s, "\"")

\* every quote of the text is followed by a second one
RECURSIVE PairedQuotes(_)
PairedQuotes(s) ==
    IF s = <<>> THEN TRUE
    ELSE IF Head(s) # "\"" THEN PairedQuotes(Tail(s))
    ELSE Len(s) >= 2 /\ s[2] = "\"" /\ PairedQuotes(Tail(Tail(s)))

\* the text with each pair of quotes read as one quote
RECURSIVE CollapseQuotes(_)
CollapseQuotes(s) ==
    IF s = <<>> THEN <<>>
    ELSE IF Head(s) = "\"" /\ Len(s) >= 2
    THEN <<"\"">> \o CollapseQuotes(Tail(Tail(s)))
    ELSE <<Head(s)>> \o CollapseQuotes(Tail(s))

\* the text escapeCsvCell applies the escaping rule to: the dd/MM/yyyy
\* rendering when the cell is read as a date, the cell otherwise
TextToEmit(cell, host) ==
    LET Of(parsed) == IF IsDate(parsed) THEN FormatDate(parsed, host) ELSE cell
    IN  Of(ParseCustomDateString(cell, host))

\* C17: a cell whose text holds a comma, a newline or a double quote is
\* emitted between double quotes with every quote inside doubled, and any
\* other text is emitted as it is ("Buy milk, eggs" becomes "\"Buy milk, eggs\"")
C17_CellEscaping ==
    pc = "escaped" =>
        \A text \in {TextToEmit(dateCell, Host)} :
            IF HasDelimiter(text)
            THEN /\ Len(rendered) >= 2
                 /\ Head(rendered) = "\""
                 /\ rendered[Len(rendered)] = "\""
                 /\ \A inner \in {SubSeq(rendered, 2, Len(rendered) - 1)} :
                       /\ PairedQuotes(inner)
                       /\ CollapseQuotes(inner) = text
            ELSE rendered = text

C17_Witness ==
    /\ pc = "escaped"
    /\ dateCell = BUY_MILK_EGGS
    /\ rendered = <<"\"">> \o BUY_MILK_EGGS \o <<"\"">>

-----------------------------------------------------------------------------
(* Further properties of the date normaliser (SpecDate)                    *)

\* the calendar day a number of days after 30 December 1899
SerialDay(serial) == CivilFromDays(DaysFromCivil(1899, 12, 30) + serial)

\* C18 (as claimed): a due-date cell whose text is purely numeric is read as
\* a number of days since 30 December 1899 and stored as the concrete date
\* that many days after it ("45000" is 15 March 2023)
C18_SerialNumberIsDate ==
    (pc = "stored" /\ AllDigits(Trim(dateCell))) =>
        \A day \in {SerialDay(ParseInt(Trim(dateCell)))} :
            /\ IsDate(dueDateField)
            /\ \A local \in {LocalFields(dueDateField, Host)} :
                  local.y = day.y /\ local.m = day.m /\ local.d = day.d

\* C19 (as claimed): two normalisations of the same text return the same
\* DateValue, whenever the second call is made
C19_NormalizerIsDeterministic ==
    againField # Idle => againField = dueDateField

-----------------------------------------------------------------------------
(* Further properties of the board (SpecBoard)                             *)

SameCreationData(before, after) ==
    /\ after.id = before.id
    /\ after.createdAt = before.createdAt
    /\ after.originalDueDate = before.originalDueDate

\* C20: a card edit (content, termini, adjusted date, colour, status) leaves
\* the id, createdAt and originalDueDate of every task as they were, and in
\* every step (import, manual addition, deletion, clear-all included) a task
\* that is still in the collection has the createdAt and originalDueDate it
\* had before the step
C20_CreationDataImmutable ==
    [][ /\ editCount' # editCount =>
              /\ Len(tasks') = Len(tasks)
              /\ \A k \in 1..Len(tasks) : SameCreationData(tasks[k], tasks'[k])
        /\ \A i \in 1..Len(tasks) : \A j \in 1..Len(tasks') :
              tasks'[j].id = tasks[i].id => SameCreationData(tasks[i], tasks'[j]) ]_vars

C20_Witness ==
    /\ uuidCount = 3
    /\ editCount = 1
    /\ Len(tasks) = 2
    /\ tasks[1].id = 1
    /\ tasks[1].content = BUY_MILK_EGGS
    /\ tasks[2].id = 2
    /\ tasks[2].createdAt = 2026
    /\ tasks[2].originalDueDate = DateAt(2024, 3, 15, FALSE)
    /\ tasks[2].adjustedDate = DateAt(2025, 2, 28, FALSE)

-----------------------------------------------------------------------------
(* The header scan                                                         *)

\* the 0-based indices, among the first n lines, of the lines on which some
\* cell spells one of the variants of a header
VariantLines(lines, variants, n) ==
    {i \in 0..(Len(FirstLines(lines, n)) - 1) : HeaderIn(<<lines[i + 1]>>, variants)}

\* index is the column of a variant on the first of those lines, -1 if none
SetByFirstLine(lines, variants, index) ==
    \A hits \in {VariantLines(lines, variants, MAX_HEADER_SCAN_LINES)} :
        IF hits = {} THEN index = -1
        ELSE \E first \in hits :
                /\ \A j \in hits : first <= j
                /\ HeaderIn(<<CellAt(lines[first + 1], index)>>, variants)

\* C21: each of the three column indices of a located header is the column
\* of one of its name variants on the first line of the scan that holds one,
\* whatever the other fields do, and stays -1 when no scanned line holds one;
\* a later line spelling the name in another column does not move it
C21_IndicesWriteOnce ==
    pc = "imported" =>
        \A lines \in {SplitLines(fileText)} :
            /\ SetByFirstLine(lines, HEADER_VARIANTS_TERMINI, parseResult.terminiColIndex)
            /\ SetByFirstLine(lines, HEADER_VARIANTS_CONTENT, parseResult.contentColIndex)
            /\ SetByFirstLine(lines, HEADER_VARIANTS_DUE_DATE, parseResult.dueDateColIndex)

C21_Witness ==
    /\ pc = "imported"
    /\ fileText = Join(<<CONTENT_ONLY_LINE, NO_TERMINI_HEADER_LINE, REPORT_ROW>>,
                       <<"\n">>)
    /\ parseResult.contentColIndex = 0
    /\ parseResult.dueDateColIndex = 2
    /\ parseResult.terminiColIndex = -1
    /\ Len(tasks) = 1
    /\ tasks[1].content = <<"7">>

\* the 0-based lines on which the resolved headers were found: for each
\* header with a variant in the scan window, the first line that holds one
HeaderRows(lines) ==
    LET First(hits) == {i \in hits : \A j \in hits : i <= j}
    IN  UNION { First(VariantLines(lines, variants, MAX_HEADER_SCAN_LINES)) :
                  variants \in {HEADER_VARIANTS_TERMINI, HEADER_VARIANTS_CONTENT,
                                HEADER_VARIANTS_DUE_DATE} }

\* C22: after a successful header location the data start row is one more
\* than the largest line index on which a resolved header was found, headers
\* on one row or split over several, and every record comes from a line
\* below that one; with blank lines 1-2 and the headers on line 3 the
\* extraction begins at line 4
C22_DataStartRow ==
    pc = "imported" =>
        \A lines \in {SplitLines(fileText)} :
            \E last \in HeaderRows(lines) :
                /\ \A i \in HeaderRows(lines) : i <= last
                /\ parseResult.dataStartRow = last + 1
                /\ Len(parseResult.tasks) <= Len(lines) - (last + 1)
                /\ \A k \in 1..Len(parseResult.tasks) :
                      \E j \in (last + 2)..Len(lines) :
                          parseResult.tasks[k].content =
                              CellAt(lines[j], parseResult.contentColIndex)

C22_Witness ==
    /\ pc = "imported"
    /\ fileText = Join(<< <<>>, <<>>, FULL_HEADER_LINE, REPORT_ROW >>, <<"\n">>)
    /\ parseResult.dataStartRow = 3
    /\ Len(tasks) = 1
    /\ tasks[1].content = <<"S","u","b","m","i","t"," ","r","e","p","o","r","t">>

-----------------------------------------------------------------------------
(* Year-month-day text                                                     *)

\* C23 (as claimed): text of the shape yyyy-M-d is normalised to a concrete
\* date exactly when its integers form a date of the calendar, and then to the
\* date with that year, month and day (at local or at UTC midnight); any other
\* such text, 2024-01-32 or 2024-13-01 or 2023-02-29, is kept as a placeholder
\* and never rolls over into a neighbouring month
C23_YearMonthDayGuard ==
    \A v \in HyphenDates :
        (pc # "cell" /\ dateCell = v.text) =>
            IF IsCalendarDate(v.y, v.m, v.d)
            THEN /\ IsDate(dueDateField)
                 /\ dueDateField.y = v.y /\ dueDateField.m = v.m /\ dueDateField.d = v.d
            ELSE dueDateField = TextValue(dateCell)

-----------------------------------------------------------------------------
(* The Termini cell                                                        *)

\* C24 (as claimed): when the Termini column is resolved, the terminiRaw of
\* the record of every retained row that reaches that column is the trimmed
\* text of the row's cell there, the empty text when the cell is empty or
\* holds only white space
C24_TerminiIsTrimmedCell ==
    (pc = "imported" /\ parseResult.terminiColIndex >= 0) =>
        \A kept \in {ContentLines(SplitLines(fileText), parseResult)} :
            /\ Len(parseResult.tasks) = Len(kept)
            /\ \A k \in 1..Len(kept) :
                  Len(Split(kept[k], ",")) > parseResult.terminiColIndex =>
                      /\ parseResult.tasks[k].terminiRaw =
                            CellAt(kept[k], parseResult.terminiColIndex)
                      /\ tasks[k].terminiRaw = parseResult.tasks[k].terminiRaw

-----------------------------------------------------------------------------
(* The importer                                                            *)

\* C25: at most one parseTaskFile call of the importer is unsettled at any
\* time: while one is, isLoading is set, which disables both import buttons,
\* so no second call is started before the first has resolved or thrown
C25_OneImportInFlight ==
    /\ inFlight \in {0, 1}
    /\ inFlight = 1 <=> isLoading
    /\ isLoading => ~ENABLED HandleImport

C25_Witness ==
    /\ inFlight = 1
    /\ isLoading
    /\ file # Idle
    /\ tasks # <<>>
    /\ uuidCount < MaxUuids

\* the step at which isLoading returns to false
LoadingEnds == isLoading /\ ~isLoading'

\* C26: an import that has set isLoading sets it back to false, when
\* parseTaskFile resolves and when it throws; at the step that does so after
\* a resolved parse exactly one of onTasksImported and onTasksReplaced has
\* been called, exactly once (the one the pressed button asks for), and after
\* a thrown parse neither has
C26_ImportAlwaysSettles ==
    /\ isLoading ~> ~isLoading
    /\ [][LoadingEnds =>
            /\ parseResult'.kind \in {"ok", "error"}
            /\ parseResult'.kind = "ok" =>
                  notified' \in { <<"onTasksImported">>, <<"onTasksReplaced">> }
            /\ parseResult'.kind = "ok" =>
                  (notified' = <<"onTasksReplaced">> <=> replaceExisting)
            /\ parseResult'.kind = "error" => notified' = <<>>]_vars

C26_Witness ==
    /\ ~isLoading
    /\ inFlight = 0
    /\ parseResult.kind = "ok"
    /\ notified = <<"onTasksImported">>
    /\ Len(tasks) = 2

\* a thrown parse has also returned isLoading to false
C26_WitnessThrown ==
    /\ ~isLoading
    /\ parseResult.kind = "error"
    /\ notified = <<>>

-----------------------------------------------------------------------------
(* The collection                                                          *)

\* the positions at which the collection after the step differs from the
\* collection before it, the two being of one length
ChangedPositions == {k \in 1..Len(tasks) : tasks'[k] # tasks[k]}

\* the collection after the step is the one before it less one task
OneTaskRemoved ==
    \E k \in 1..Len(tasks) :
        tasks' = SubSeq(tasks, 1, k - 1) \o SubSeq(tasks, k + 1, Len(tasks))

\* C27: whatever imports (appending or replacing), manual additions, edits,
\* deletions and clear-alls have happened, no two tasks of the collection have
\* the same id, so an edit of a card changes one task and no other and a
\* deletion removes one task and no other
C27_UniqueIds ==
    /\ [](\A i, j \in 1..Len(tasks) : tasks[i].id = tasks[j].id => i = j)
    /\ [][ /\ editCount' # editCount =>
                 (Len(tasks') = Len(tasks) /\ Cardinality(ChangedPositions) <= 1)
           /\ (/\ pc' = pc /\ uuidCount' = uuidCount /\ editCount' = editCount
               /\ tasks' # tasks /\ tasks' # <<>>) => OneTaskRemoved ]_vars

C27_Witness ==
    /\ Len(tasks) = 3
    /\ uuidCount = 3
    /\ editCount = 1
    /\ tasks[1].id = 1
    /\ tasks[2].id = 2
    /\ tasks[3].id = 3
    /\ tasks[2].status = "Completat"
    /\ tasks[3].status # "Completat"

\* C28 (as claimed): whatever imports, manual additions and card edits have
\* happened, the content of every task of the collection is non-empty after
\* trimming
C28_ContentNeverEmpty ==
    \A k \in 1..Len(tasks) : Trim(tasks[k].content) # <<>>

\* a stored date value is a concrete date, or text that parseCustomDateString
\* on this host does not read as a date
SettledDateValue(value) ==
    \/ IsDate(value)
    \/ /\ IsText(value)
       /\ ~IsDate(ParseCustomDateString(value.text, Host))
       /\ DetermineDateValue(value, Host) = value

\* C29: whatever imports, manual additions and date edits have happened, the
\* originalDueDate and the adjustedDate of every task are each a concrete
\* date or a placeholder text that the normaliser does not read as a date:
\* normalising a stored placeholder again gives the placeholder back
C29_NoParseablePlaceholder ==
    \A k \in 1..Len(tasks) :
        /\ SettledDateValue(tasks[k].originalDueDate)
        /\ SettledDateValue(tasks[k].adjustedDate)

C29_Witness ==
    /\ editCount = 1
    /\ Len(tasks) = 3
    /\ tasks[1].originalDueDate = DateAt(2025, 1, 10, FALSE)
    /\ tasks[1].adjustedDate = TextValue(DATA_NO_ESPECIFICADA)
    /\ tasks[2].originalDueDate = DateAt(2024, 3, 15, FALSE)
    /\ tasks[3].originalDueDate = TextValue(DASH)
    /\ tasks[3].adjustedDate = TextValue(DASH)

-----------------------------------------------------------------------------
(* Data rows and the header scan                                           *)

\* the 0-based line by which both the Content and the DueDate header have
\* been located: the later of the first lines that hold them
MandatoryLocatedAt(lines) ==
    LET First(hits) == CHOOSE i \in hits : \A j \in hits : i <= j
        Later(a, b) == IF a > b THEN a ELSE b
    IN  Later(First(VariantLines(lines, HEADER_VARIANTS_CONTENT, MAX_HEADER_SCAN_LINES)),
              First(VariantLines(lines, HEADER_VARIANTS_DUE_DATE, MAX_HEADER_SCAN_LINES)))

\* C30 (as claimed): once the Content and the DueDate header have both been
\* located no later line changes the column map or the data start row: the
\* Termini column is the one found up to that line (none if none was), the
\* data start at the next line, and every later line that is not blank and
\* has a non-empty content cell yields a record, also when one of its cells
\* spells TERMINI
C30_DataRowsNotHeaders ==
    pc = "imported" =>
        \A lines \in {SplitLines(fileText)} :
            \A located \in {MandatoryLocatedAt(lines)} :
                /\ parseResult.dataStartRow = located + 1
                /\ parseResult.terminiColIndex >= 0
                      <=> HeaderIn(SubSeq(lines, 1, located + 1), HEADER_VARIANTS_TERMINI)
                /\ Len(parseResult.tasks) =
                      Cardinality({i \in (located + 2)..Len(lines) :
                                      /\ ~IsBlankLine(lines[i])
                                      /\ CellAt(lines[i], parseResult.contentColIndex) # <<>>})

====
